---- MODULE Spec2Model ----
(***************************************************************************)
(* A model of process_geotiff_for_unity and its helpers                    *)
(* (src/unity_terrain_exporter/convert_unity_raw.py): the conversion of an *)
(* elevation raster into a square, headerless 16-bit heightmap file.       *)
(*                                                                         *)
(* The pipeline is modelled as a state machine with one action per stage   *)
(* of the function body, plus the exception handler and the cleanup of the *)
(* finally clause.  GDAL dataset objects are modelled as records, the      *)
(* Python references to them as the names of the objects, the progress     *)
(* sink as the sequence of lines pushed to it.                             *)
(***************************************************************************)
EXTENDS Integers, Sequences, FiniteSets, TLC

(***************************************************************************)
(* Bounds of the model.                                                    *)
(***************************************************************************)
\* largest raster width and height of the pipeline specification
MaxDim == 3
\* largest number of pixels of a raster of the pipeline specification
MaxPixels == 6
\* largest raster width and height of the crop-window specification
MaxSide == 12

\* sample values of the rasters: a value below sea level, sea level (zero,
\* the value the padding heuristic looks at) and a positive elevation.  With
\* the range -1..3 the sample 0 is quantised to 16383, a value whose two
\* bytes differ.
Elev == {-1, 0, 3}

\* the float32 sample NaN, held as a code outside the range of the numeric
\* samples; the operators on samples below treat it as IEEE 754 does
NaN == 99999

\* a != b and a == b on float32 values: NaN differs from everything
Neq(a, b) == a = NaN \/ b = NaN \/ a # b
Eq(a, b) == ~Neq(a, b)

\* a - b on float32 values (exact for the integer samples of the model)
Sub(a, b) == IF a = NaN \/ b = NaN THEN NaN ELSE a - b

\* an optional value of the Python source: None is the empty tuple and a
\* present value x the one-element tuple Some(x)
None == << >>
Some(x) == << x >>

\* a reference that names no dataset object
NoRef == "None"

\* declared no-data sentinels: absent, or one of the sample values
NoDataChoices == {None} \cup { Some(v) : v \in Elev }

\* the affine geotransform of the inputs: 2-unit pixels, rotated
InputGeoTransform == << 500, 2, 1, 900, 1, -2 >>

\* the state of an output path that the run has not touched: distinct from
\* every sequence of bytes
Untouched == << -1 >>

----------------------------------------------------------------------------
(***************************************************************************)
(* Rasters.  A raster is a function from <<row, col>> (both from 1, row 1  *)
(* the top row) to samples.  The inputs are the rasters in which at most   *)
(* two pixels deviate from a background value: with three sample values    *)
(* this gives every combination of sentinel, minimum and maximum.          *)
(***************************************************************************)
Pixels(rows, cols) == (1..rows) \X (1..cols)

RastersOf(V, rows, cols) ==
    { [p \in Pixels(rows, cols) |->
          IF p = p1 THEN v1 ELSE IF p = p2 THEN v2 ELSE b] :
      p1 \in Pixels(rows, cols), p2 \in Pixels(rows, cols),
      b \in V, v1 \in V, v2 \in V }

Rasters(rows, cols) == RastersOf(Elev, rows, cols)

\* the files the input path may name: an unopenable one, or a dataset
InputFiles ==
    { [openable |-> FALSE] } \cup
    UNION { { [openable |-> TRUE, cols |-> s[1], rows |-> s[2], px |-> r,
               nodata |-> nd, gt |-> InputGeoTransform] :
              r \in Rasters(s[2], s[1]), nd \in NoDataChoices } :
            s \in { t \in (1..MaxDim) \X (1..MaxDim) :
                       t[1] * t[2] <= MaxPixels } }

----------------------------------------------------------------------------
(***************************************************************************)
(* Extent normalisation: the centred square window.                        *)
(***************************************************************************)
Min(a, b) == IF a <= b THEN a ELSE b
Max(a, b) == IF a >= b THEN a ELSE b

\* a variant of CropOffset: the surplus is not halved
CropOffsetNotHalved(cols, rows) ==
    [ x |-> cols - Min(cols, rows),
      y |-> rows - Min(cols, rows) ]

\* a variant of CropOffset: the window is taken from the top-left corner
CropOffsetTopLeft(cols, rows) == [ x |-> 0, y |-> 0 ]

\* x_offset = (cols - min_dim) // 2, y_offset = (rows - min_dim) // 2
CropOffset(cols, rows) ==
    [ x |-> (cols - Min(cols, rows)) \div 2,
      y |-> (rows - Min(cols, rows)) \div 2 ]

\* srcWin = [x_offset, y_offset, min_dim, min_dim]
SrcWin(cols, rows) ==
    << CropOffset(cols, rows).x, CropOffset(cols, rows).y,
       Min(cols, rows), Min(cols, rows) >>

\* gdal.Translate with srcWin: a pure window selection.  Pixel <<r, c>> of the
\* result is pixel <<r + yoff, c + xoff>> of the source; the origin of the
\* geotransform moves to the window's top-left corner.
Translate(ds, win) ==
    [ cols   |-> win[3],
      rows   |-> win[4],
      px     |-> [ p \in Pixels(win[4], win[3]) |->
                      ds.px[<<p[1] + win[2], p[2] + win[1]>>] ],
      nodata |-> ds.nodata,
      gt     |-> << ds.gt[1] + win[1] * ds.gt[2] + win[2] * ds.gt[3],
                    ds.gt[2], ds.gt[3],
                    ds.gt[4] + win[1] * ds.gt[5] + win[2] * ds.gt[6],
                    ds.gt[5], ds.gt[6] >> ]

\* the dataset object gdal.Open returns for an openable file
Dataset(f) ==
    [ cols |-> f.cols, rows |-> f.rows, px |-> f.px,
      nodata |-> f.nodata, gt |-> f.gt ]

----------------------------------------------------------------------------
(***************************************************************************)
(* Validity classification.  A mask is a function from pixels to BOOLEAN.  *)
(***************************************************************************)
Count(S) == Cardinality(S)

\* mask = data != nodata_value, or all ones when no sentinel is declared
SentinelMask(data, nodata) ==
    [ p \in DOMAIN data |->
        IF nodata = None THEN TRUE ELSE Neq(data[p], nodata[1]) ]

\* border_size = max(5, min(cols, rows) // 20)
BorderSize(rows, cols) == Max(5, Min(cols, rows) \div 20)

\* border_mask: the pixels within border_size of an edge (slices clip)
BorderPixels(rows, cols) ==
    LET bs == BorderSize(rows, cols)
    IN  { p \in Pixels(rows, cols) :
            \/ p[1] <= bs \/ p[1] > rows - bs
            \/ p[2] <= bs \/ p[2] > cols - bs }

\* center_mask[center_start:center_end, center_start:center_end] with
\* center_start = rows // 4 and center_end = 3 * rows // 4 on both axes
CenterPixels(rows, cols) ==
    LET cs == rows \div 4
        ce == (3 * rows) \div 4
    IN  { p \in Pixels(rows, cols) :
            /\ p[1] > cs /\ p[1] <= ce
            /\ p[2] > cs /\ p[2] <= ce }

ZeroPixels(data) == { p \in DOMAIN data : data[p] = 0 }

(***************************************************************************)
(* The zero ratios are Python floats (IEEE 754 doubles).  A positive       *)
(* double is held as [e, hi, lo]: its 53-bit significand is                *)
(* hi * 2^26 + lo with 2^26 <= hi < 2^27 and lo < 2^26, and e is the       *)
(* binary exponent of the leading bit.  Counts stay below 2^18.            *)
(***************************************************************************)
\* doubles k until it reaches n: <<k * 2^z, z>> with n <= k * 2^z < 2n
RECURSIVE LeadShift(_, _, _)
LeadShift(k, n, z) == IF k >= n THEN << k, z >> ELSE LeadShift(2 * k, n, z + 1)

\* the next double above x
NextUp(x) ==
    IF x.lo + 1 < 67108864 THEN [ e |-> x.e, hi |-> x.hi, lo |-> x.lo + 1 ]
    ELSE IF x.hi + 1 < 134217728 THEN [ e |-> x.e, hi |-> x.hi + 1, lo |-> 0 ]
    ELSE [ e |-> x.e + 1, hi |-> 67108864, lo |-> 0 ]

\* the double k / n for integers 0 < k <= n, rounded to nearest, ties to
\* even: long division, 13 bits of the quotient at a time
F64Div(k, n) ==
    LET ls == LeadShift(k, n, 0)
        r0 == ls[1] - n
        q1 == (r0 * 8192) \div n
        r1 == (r0 * 8192) % n
        q2 == (r1 * 8192) \div n
        r2 == (r1 * 8192) % n
        q3 == (r2 * 8192) \div n
        r3 == (r2 * 8192) % n
        q4 == (r3 * 8192) \div n
        r4 == (r3 * 8192) % n
        x  == [ e |-> 0 - ls[2],
                hi |-> 67108864 + q1 * 8192 + q2,
                lo |-> q3 * 8192 + q4 ]
    IN  IF 2 * r4 > n \/ (2 * r4 = n /\ x.lo % 2 = 1) THEN NextUp(x) ELSE x

\* the double 3 * x, rounded to nearest, ties to even: the product has 54 or
\* 55 bits, of which the last one or two are rounded away
F64Mul3(x) ==
    LET lo3 == (3 * x.lo) % 67108864
        hi3 == 3 * x.hi + ((3 * x.lo) \div 67108864)
    IN  IF hi3 >= 268435456
        THEN LET y   == [ e |-> x.e + 2, hi |-> hi3 \div 4,
                          lo |-> (hi3 % 4) * 16777216 + (lo3 \div 4) ]
                 rem == lo3 % 4
             IN  IF rem > 2 \/ (rem = 2 /\ y.lo % 2 = 1) THEN NextUp(y)
                 ELSE y
        ELSE LET y == [ e |-> x.e + 1, hi |-> hi3 \div 2,
                        lo |-> (hi3 % 2) * 33554432 + (lo3 \div 2) ]
             IN  IF lo3 % 2 = 1 /\ y.lo % 2 = 1 THEN NextUp(y) ELSE y

\* x > y on positive doubles
F64Greater(x, y) ==
    \/ x.e > y.e
    \/ x.e = y.e /\ x.hi > y.hi
    \/ x.e = y.e /\ x.hi = y.hi /\ x.lo > y.lo

\* the literal 0.3: the double nearest to 3 / 10
PointThree == F64Div(3, 10)

\* border_zero_ratio > 0.3 and (center_zero_ratio == 0 or
\* border_zero_ratio > 3 * center_zero_ratio) for the ratios bz / bt and
\* cz / ct (0 for an empty region)
RatioTest(bz, bt, cz, ct) ==
    /\ bt > 0
    /\ bz > 0
    /\ F64Greater(F64Div(bz, bt), PointThree)
    /\ \/ ct = 0
       \/ cz = 0
       \/ F64Greater(F64Div(bz, bt), F64Mul3(F64Div(cz, ct)))

PaddingTest(data, rows, cols) ==
    RatioTest(Count(ZeroPixels(data) \cap BorderPixels(rows, cols)),
              Count(BorderPixels(rows, cols)),
              Count(ZeroPixels(data) \cap CenterPixels(rows, cols)),
              Count(CenterPixels(rows, cols)))

\* a variant of DetectAndExcludePadding: the whole border band is excluded
DetectAndExcludePaddingBand(data, mask, rows, cols) ==
    IF ZeroPixels(data) = {} \/ ZeroPixels(data) = DOMAIN data
    THEN << mask, FALSE >>
    ELSE IF PaddingTest(data, rows, cols)
         THEN << [ p \in DOMAIN data |->
                     mask[p] /\ p \notin BorderPixels(rows, cols) ], TRUE >>
         ELSE << mask, FALSE >>

\* detect_and_exclude_padding: <<updated_mask, padding_detected>>
DetectAndExcludePadding(data, mask, rows, cols) ==
    IF ZeroPixels(data) = {} \/ ZeroPixels(data) = DOMAIN data
    THEN << mask, FALSE >>
    ELSE IF PaddingTest(data, rows, cols)
         THEN << [ p \in DOMAIN data |-> mask[p] /\ data[p] # 0 ], TRUE >>
         ELSE << mask, FALSE >>

----------------------------------------------------------------------------
(***************************************************************************)
(* Quantisation.  The samples are float32; (data - min_height) /           *)
(* terrain_height_variation and the product with 65535 are float32         *)
(* operations (24-bit significand, round to nearest, ties to even), and    *)
(* astype(uint16) truncates.  k = sample - min and n = max - min are       *)
(* exact for the integer samples of the model.                             *)
(***************************************************************************)
RECURSIVE Pow2(_)
Pow2(e) == IF e = 0 THEN 1 ELSE 2 * Pow2(e - 1)

\* binary long division: `bits` more quotient bits of r / n appended to q
RECURSIVE LongDiv(_, _, _, _)
LongDiv(r, n, q, bits) ==
    IF bits = 0 THEN << q, r >>
    ELSE LET b == IF 2 * r >= n THEN 1 ELSE 0
         IN  LongDiv(2 * r - b * n, n, 2 * q + b, bits - 1)

\* round to nearest, ties to even: q with remainder rem out of modulus m
RoundHalfEven(q, rem, m) ==
    IF 2 * rem > m \/ (2 * rem = m /\ q % 2 = 1) THEN q + 1 ELSE q

\* float32(k / n) for 0 < k <= n, as <<significand, z>>: the value is
\* significand * 2^-(23 + z)
F32Div(k, n) ==
    LET ls == LeadShift(k, n, 0)
        qr == LongDiv(ls[1] - n, n, 1, 23)
    IN  << RoundHalfEven(qr[1], qr[2], n), ls[2] >>

\* int(float32(x * 65535)) for the float32 x = sig * 2^-(23 + z).  The
\* 40-bit product is held as hi * 4096 + lo.
F32Scale(sig, z) ==
    LET t    == (sig % 4096) * 65535
        hi   == (sig \div 4096) * 65535 + (t \div 4096)
        lo   == t % 4096
        d    == IF hi >= Pow2(27) THEN 16 ELSE 15
        q    == hi \div Pow2(d - 12)
        rem  == (hi % Pow2(d - 12)) * 4096 + lo
        qr   == RoundHalfEven(q, rem, Pow2(d))
        sh   == 23 + z - d
    IN  IF sh > 30 THEN 0 ELSE qr \div Pow2(sh)

\* a variant of Quantize: the scale is 65536 and the cast wraps
QuantizeWrapping(sample, lo, hi) ==
    IF sample = lo THEN 0
    ELSE (((sample - lo) * 65536) \div (hi - lo)) % 65536

\* one sample of (data_normalized * 65535).astype(np.uint16)
Quantize(sample, lo, hi) ==
    IF sample = lo THEN 0
    ELSE LET f == F32Div(sample - lo, hi - lo)
         IN  F32Scale(f[1], f[2])

----------------------------------------------------------------------------
(***************************************************************************)
(* The state of one call of process_geotiff_for_unity.                     *)
(***************************************************************************)
VARIABLES
    pc,               \* the stage the call has reached
    file,             \* what the input path names (never changed)
    dataset,          \* the local `dataset`: NoRef or the name of an object
    cropped_ds,       \* the local `cropped_ds`: NoRef or the name of an object
    open_ds,          \* the dataset objects that are referenced, hence open
    vsimem,           \* the file at temp_cropped_path: None or its contents
    src_win,          \* the srcWin handed to gdal.Translate, None if none was
    data,             \* the sample array `data`
    mask,             \* the validity mask `mask`
    padding_detected, \* the flag detect_and_exclude_padding returned
    min_height,       \* np.min(data[mask]), None until computed
    max_height,       \* np.max(data[mask]), None until computed
    is_utm,           \* the outcome of the projection check
    data_uint16,      \* the quantised array
    byteorder,        \* sys.byteorder, "unread" until the code reads it
    out_file,         \* the bytes at output_raw_path, or Untouched
    log,              \* the calls made on the progress sink, in order: the
                      \* lines pushed to feedback.pushConsoleInfo (the code
                      \* calls no other method of the sink)
    ret,              \* "none" while running, then "True" or "False"
    exc,              \* "none", or "escaped" when an exception leaves the call
    failed_at,        \* history: the stage that ended the run early, or "none"
    output            \* the value under OUTPUT in the dictionary that
                      \* processAlgorithm returned, "unset" before it returns

vars == << pc, file, dataset, cropped_ds, open_ds, vsimem, src_win, data, mask,
           padding_detected, min_height, max_height, is_utm, data_uint16,
           byteorder, out_file, log, ret, exc, failed_at, output >>

\* one line of the progress sink
Line(tag, a, b) == [ tag |-> tag, a |-> a, b |-> b ]
Msg(tag) == Line(tag, 0, 0)

\* the object a reference names
Deref(ref) == IF ref = "src" THEN Dataset(file) ELSE vsimem[1]

\* the objects still referenced by one of the two locals
Referenced(d, c) == { d, c } \ { NoRef }

Init ==
    /\ pc = "start"
    /\ file \in InputFiles
    /\ dataset = NoRef
    /\ cropped_ds = NoRef
    /\ open_ds = {}
    /\ vsimem = None
    /\ src_win = None
    /\ data = None
    /\ mask = None
    /\ padding_detected = FALSE
    /\ min_height = None
    /\ max_height = None
    /\ is_utm = FALSE
    /\ data_uint16 = None
    /\ byteorder = "unread"
    /\ out_file = Untouched
    /\ log = << >>
    /\ ret = "none"
    /\ exc = "none"
    /\ failed_at = "none"
    /\ output = "unset"

----------------------------------------------------------------------------
(***************************************************************************)
(* 0. Open the input file.  For a file GDAL cannot open, gdal.Open either  *)
(* returns None (the `if not dataset` branch) or, exceptions being         *)
(* enabled, raises.                                                        *)
(***************************************************************************)
OpenOk ==
    /\ pc = "start"
    /\ file.openable
    /\ dataset' = "src"
    /\ open_ds' = { "src" }
    /\ log' = Append(log, Msg("processing"))
    /\ pc' = "opened"
    /\ UNCHANGED << file, cropped_ds, vsimem, src_win, data, mask,
                    padding_detected, min_height, max_height, is_utm,
                    data_uint16, byteorder, out_file, ret, exc, failed_at,
                    output >>

\* a variant of OpenReturnsNone: the output file is opened for writing before
\* the input is validated
OpenReturnsNoneAfterTruncate ==
    /\ pc = "start"
    /\ ~file.openable
    /\ out_file' = << >>
    /\ log' = Append(log, Msg("error_open"))
    /\ ret' = "False"
    /\ failed_at' = "open"
    /\ pc' = "finally"
    /\ UNCHANGED << file, dataset, cropped_ds, open_ds, vsimem, src_win, data,
                    mask, padding_detected, min_height, max_height, is_utm,
                    data_uint16, byteorder, exc, output >>

OpenReturnsNone ==
    /\ pc = "start"
    /\ ~file.openable
    /\ log' = Append(log, Msg("error_open"))
    /\ ret' = "False"
    /\ failed_at' = "open"
    /\ pc' = "finally"
    /\ UNCHANGED << file, dataset, cropped_ds, open_ds, vsimem, src_win, data,
                    mask, padding_detected, min_height, max_height, is_utm,
                    data_uint16, byteorder, out_file, exc, output >>

OpenRaises ==
    /\ pc = "start"
    /\ ~file.openable
    /\ failed_at' = "open"
    /\ pc' = "except"
    /\ UNCHANGED << file, dataset, cropped_ds, open_ds, vsimem, src_win, data,
                    mask, padding_detected, min_height, max_height, is_utm,
                    data_uint16, byteorder, out_file, log, ret, exc, output >>

OpenInput == OpenOk \/ OpenReturnsNone \/ OpenRaises

(***************************************************************************)
(* 1. Square crop from the centre, only if the raster is not square.       *)
(***************************************************************************)
\* a variant of SkipCrop: a square raster goes through gdal.Translate too
CropEvenIfSquare ==
    /\ pc = "opened"
    /\ file.cols = file.rows
    /\ src_win' = SrcWin(file.cols, file.rows)
    /\ log' = Append(log, Line("cropping", file.cols, file.rows))
    /\ vsimem' = Some(Translate(Deref(dataset), src_win'))
    /\ dataset' = NoRef
    /\ cropped_ds' = "tmp"
    /\ open_ds' = Referenced(NoRef, "tmp")
    /\ pc' = "cropped"
    /\ UNCHANGED << file, data, mask, padding_detected, min_height, max_height,
                    is_utm, data_uint16, byteorder, out_file, ret, exc,
                    failed_at, output >>

SkipCrop ==
    /\ pc = "opened"
    /\ file.cols = file.rows
    /\ log' = Append(log, Line("skip_crop", file.cols, file.rows))
    /\ cropped_ds' = dataset
    /\ dataset' = NoRef
    /\ open_ds' = Referenced(NoRef, dataset)
    /\ pc' = "cropped"
    /\ UNCHANGED << file, vsimem, src_win, data, mask, padding_detected,
                    min_height, max_height, is_utm, data_uint16, byteorder,
                    out_file, ret, exc, failed_at, output >>

Crop ==
    /\ pc = "opened"
    /\ file.cols # file.rows
    /\ src_win' = SrcWin(file.cols, file.rows)
    /\ log' = Append(log, Line("cropping", file.cols, file.rows))
    /\ vsimem' = Some(Translate(Deref(dataset), src_win'))
    /\ dataset' = NoRef
    /\ cropped_ds' = "tmp"
    /\ open_ds' = Referenced(NoRef, "tmp")
    /\ pc' = "cropped"
    /\ UNCHANGED << file, data, mask, padding_detected, min_height, max_height,
                    is_utm, data_uint16, byteorder, out_file, ret, exc,
                    failed_at, output >>

\* gdal.Translate or the second gdal.Open raises, with the in-memory file
\* already created or not
CropRaises ==
    /\ pc = "opened"
    /\ file.cols # file.rows
    /\ src_win' = SrcWin(file.cols, file.rows)
    /\ log' = Append(log, Line("cropping", file.cols, file.rows))
    /\ \E created \in BOOLEAN :
          vsimem' = IF created
                    THEN Some(Translate(Deref(dataset), src_win'))
                    ELSE None
    /\ failed_at' = "crop"
    /\ pc' = "except"
    /\ UNCHANGED << file, dataset, cropped_ds, open_ds, data, mask,
                    padding_detected, min_height, max_height, is_utm,
                    data_uint16, byteorder, out_file, ret, exc, output >>

ExtentNormalize == SkipCrop \/ Crop \/ CropRaises

(***************************************************************************)
(* 2. The projection check: informational only.                            *)
(***************************************************************************)
ValidateProjection ==
    /\ pc = "cropped"
    /\ \E utm \in BOOLEAN :
          /\ is_utm' = utm
          /\ log' = IF utm THEN Append(log, Msg("utm_detected"))
                    ELSE log \o << Msg("warning_not_utm"),
                                   Msg("warning_reproject"),
                                   Msg("warning_continue") >>
    /\ pc' = "projected"
    /\ UNCHANGED << file, dataset, cropped_ds, open_ds, vsimem, src_win, data,
                    mask, padding_detected, min_height, max_height,
                    data_uint16, byteorder, out_file, ret, exc, failed_at,
                    output >>

(***************************************************************************)
(* 3. Read band 1, build the validity mask, stop if nothing is valid.      *)
(***************************************************************************)
ValidPixels(m) == { p \in DOMAIN m : m[p] }

\* the mask after sentinel exclusion and the padding heuristic, with the flag
Classify(ds) ==
    DetectAndExcludePadding(ds.px, SentinelMask(ds.px, ds.nodata),
                            ds.rows, ds.cols)

ReadAndClassify ==
    /\ pc = "projected"
    /\ LET ds == Deref(cropped_ds)
           r  == Classify(ds)
       IN  /\ data' = ds.px
           /\ mask' = r[1]
           /\ padding_detected' = r[2]
           /\ IF ValidPixels(r[1]) = {}
              THEN /\ log' = Append(log, Msg("error_no_valid"))
                   /\ ret' = "False"
                   /\ failed_at' = "novalid"
                   /\ pc' = "finally"
              ELSE /\ pc' = "classified"
                   /\ UNCHANGED << log, ret, failed_at >>
    /\ UNCHANGED << file, dataset, cropped_ds, open_ds, vsimem, src_win,
                    min_height, max_height, is_utm, data_uint16, byteorder,
                    out_file, exc, output >>

\* the push of the error line raises: the early return is not reached
ClassifyLogRaises ==
    /\ pc = "projected"
    /\ LET ds == Deref(cropped_ds)
           r  == Classify(ds)
       IN  /\ ValidPixels(r[1]) = {}
           /\ data' = ds.px
           /\ mask' = r[1]
           /\ padding_detected' = r[2]
    /\ failed_at' = "novalid"
    /\ pc' = "except"
    /\ UNCHANGED << file, dataset, cropped_ds, open_ds, vsimem, src_win,
                    min_height, max_height, is_utm, data_uint16, byteorder,
                    out_file, log, ret, exc, output >>

(***************************************************************************)
(* The elevation range over the valid pixels, the fill of the excluded     *)
(* pixels, and the lines of the suggested import settings.                 *)
(***************************************************************************)
\* np.min and np.max: NaN if any element is NaN
MinOf(S) == IF NaN \in S THEN NaN ELSE CHOOSE x \in S : \A y \in S : x <= y
MaxOf(S) == IF NaN \in S THEN NaN ELSE CHOOSE x \in S : \A y \in S : x >= y

\* a variant of ValidSamples: the mask is ignored
AllSamples(d, m) == { d[p] : p \in DOMAIN d }

\* data[mask]
ValidSamples(d, m) == { d[p] : p \in ValidPixels(m) }

\* data[~mask] = min_height
Fill(d, m, lo) == [ p \in DOMAIN d |-> IF m[p] THEN d[p] ELSE lo ]

\* the lines pushed between the range computation and the quantisation
MetricLines(ds, lo, hi, padded, excluded, utm) ==
    (IF padded THEN << Line("padding_excluded", excluded, 0) >> ELSE << >>)
    \o << Msg("settings_header"),
          Line("resolution", ds.cols, ds.rows),
          Line("size_x", IF utm THEN "m" ELSE "units may not be meters", 0),
          Line("size_y", Sub(hi, lo), 0),
          Line("size_z", IF utm THEN "m" ELSE "units may not be meters", 0),
          Line("min_height", lo, 0),
          Line("max_height", hi, 0) >>

Measure ==
    /\ pc = "classified"
    /\ LET valid == ValidSamples(data, mask)
           lo    == MinOf(valid)
           hi    == MaxOf(valid)
       IN  /\ min_height' = Some(lo)
           /\ max_height' = Some(hi)
           /\ data' = Fill(data, mask, lo)
           /\ log' = log \o MetricLines(Deref(cropped_ds), lo, hi,
                                        padding_detected,
                                        Count(DOMAIN mask \ ValidPixels(mask)),
                                        is_utm)
    /\ pc' = "measured"
    /\ UNCHANGED << file, dataset, cropped_ds, open_ds, vsimem, src_win, mask,
                    padding_detected, is_utm, data_uint16, byteorder, out_file,
                    ret, exc, failed_at, output >>

(***************************************************************************)
(* Normalise to 0..65535 and fix the byte order.                           *)
(***************************************************************************)
\* a variant of ByteSwap: the two bytes are left in place
ByteSwapSkipped(v) == v

\* ndarray.byteswap on one uint16
ByteSwap(v) == (v % 256) * 256 + (v \div 256)

\* astype(np.uint16) of a float32 NaN is undefined in C: the common builds
\* give 0, saturating conversions give the largest value
NaNCasts == { 0, 65535 }

\* a variant of QuantizeArray: a flat terrain is normalised to 1.0
QuantizeArrayFlatAsFull(d, lo, hi, nan_word) ==
    IF Eq(hi, lo) THEN [ p \in DOMAIN d |-> 65535 ]
    ELSE [ p \in DOMAIN d |->
             IF NaN \in { d[p], lo, hi } THEN nan_word
             ELSE Quantize(d[p], lo, hi) ]

\* data_uint16 before the byte-order fix: zeros if max_height == min_height,
\* else ((data - min_height) / terrain_height_variation * 65535) as uint16;
\* a NaN operand makes the quotient NaN, cast to nan_word
QuantizeArray(d, lo, hi, nan_word) ==
    IF Eq(hi, lo) THEN [ p \in DOMAIN d |-> 0 ]
    ELSE [ p \in DOMAIN d |->
             IF NaN \in { d[p], lo, hi } THEN nan_word
             ELSE Quantize(d[p], lo, hi) ]

QuantizeStage ==
    /\ pc = "measured"
    /\ \E order \in { "little", "big" },
          nan_word \in IF min_height[1] = NaN THEN NaNCasts ELSE { 0 } :
          /\ byteorder' = order
          /\ LET q == QuantizeArray(data, min_height[1], max_height[1],
                                    nan_word)
             IN  data_uint16' = IF order = "big"
                                THEN [ p \in DOMAIN q |-> ByteSwap(q[p]) ]
                                ELSE q
    /\ pc' = "quantized"
    /\ UNCHANGED << file, dataset, cropped_ds, open_ds, vsimem, src_win, data,
                    mask, padding_detected, min_height, max_height, is_utm,
                    out_file, log, ret, exc, failed_at, output >>

(***************************************************************************)
(* 4. Save the file: ndarray.tofile writes the array in C order, each      *)
(* value in the byte order of the host.                                    *)
(***************************************************************************)
NativeBytes(v, order) ==
    IF order = "little" THEN << v % 256, v \div 256 >>
    ELSE << v \div 256, v % 256 >>

\* a variant of ToFile: the array is written column by column
ToFileColumnMajor(a, rows, cols, order) ==
    [ i \in 1..(2 * rows * cols) |->
        LET j == (i - 1) \div 2
            p == << (j % rows) + 1, (j \div rows) + 1 >>
        IN  NativeBytes(a[p], order)[((i - 1) % 2) + 1] ]

\* the bytes of a rows x cols uint16 array in row-major order
ToFile(a, rows, cols, order) ==
    [ i \in 1..(2 * rows * cols) |->
        LET j == (i - 1) \div 2
            p == << (j \div cols) + 1, (j % cols) + 1 >>
        IN  NativeBytes(a[p], order)[((i - 1) % 2) + 1] ]

WriteOutput ==
    /\ pc = "quantized"
    /\ LET ds == Deref(cropped_ds)
       IN  out_file' = ToFile(data_uint16, ds.rows, ds.cols, byteorder)
    /\ pc' = "written"
    /\ UNCHANGED << file, dataset, cropped_ds, open_ds, vsimem, src_win, data,
                    mask, padding_detected, min_height, max_height, is_utm,
                    data_uint16, byteorder, log, ret, exc, failed_at, output >>

\* open(..., 'wb') raises (nothing is touched), or tofile raises after the
\* file was truncated and part of the array written
WriteRaises ==
    /\ pc = "quantized"
    /\ LET ds    == Deref(cropped_ds)
           bytes == ToFile(data_uint16, ds.rows, ds.cols, byteorder)
       IN  \E opened \in BOOLEAN :
              out_file' = IF opened
                          THEN SubSeq(bytes, 1, Len(bytes) \div 2)
                          ELSE out_file
    /\ failed_at' = "write"
    /\ pc' = "except"
    /\ UNCHANGED << file, dataset, cropped_ds, open_ds, vsimem, src_win, data,
                    mask, padding_detected, min_height, max_height, is_utm,
                    data_uint16, byteorder, log, ret, exc, output >>

\* a variant of LogSuccess: success is reported before the file is written
LogSuccessBeforeWrite ==
    /\ pc = "quantized"
    /\ log' = Append(log, Msg("success"))
    /\ ret' = "True"
    /\ pc' = "finally"
    /\ UNCHANGED << file, dataset, cropped_ds, open_ds, vsimem, src_win, data,
                    mask, padding_detected, min_height, max_height, is_utm,
                    data_uint16, byteorder, out_file, exc, failed_at, output >>

LogSuccess ==
    /\ pc = "written"
    /\ log' = Append(log, Msg("success"))
    /\ ret' = "True"
    /\ pc' = "finally"
    /\ UNCHANGED << file, dataset, cropped_ds, open_ds, vsimem, src_win, data,
                    mask, padding_detected, min_height, max_height, is_utm,
                    data_uint16, byteorder, out_file, exc, failed_at, output >>

(***************************************************************************)
(* Exceptions.  Any statement of the try body may raise (a GDAL call, an   *)
(* array operation, a call of the progress sink): the stage that would     *)
(* come next raises before it has changed anything.                        *)
(***************************************************************************)
BodyStages == { "opened", "cropped", "projected", "classified", "measured",
                "quantized", "written" }

Raise ==
    /\ pc \in BodyStages
    /\ failed_at' = pc
    /\ pc' = "except"
    /\ UNCHANGED << file, dataset, cropped_ds, open_ds, vsimem, src_win, data,
                    mask, padding_detected, min_height, max_height, is_utm,
                    data_uint16, byteorder, out_file, log, ret, exc, output >>

\* except Exception as e: push the error line and return False
HandlerReturnsFalse ==
    /\ pc = "except"
    /\ log' = Append(log, Msg("error_exception"))
    /\ ret' = "False"
    /\ pc' = "finally"
    /\ UNCHANGED << file, dataset, cropped_ds, open_ds, vsimem, src_win, data,
                    mask, padding_detected, min_height, max_height, is_utm,
                    data_uint16, byteorder, out_file, exc, failed_at, output >>

\* the call of the progress sink in the handler raises: nothing catches it
HandlerRaises ==
    /\ pc = "except"
    /\ exc' = "escaped"
    /\ pc' = "finally"
    /\ UNCHANGED << file, dataset, cropped_ds, open_ds, vsimem, src_win, data,
                    mask, padding_detected, min_height, max_height, is_utm,
                    data_uint16, byteorder, out_file, log, ret, failed_at,
                    output >>

HandleException == HandlerReturnsFalse \/ HandlerRaises

(***************************************************************************)
(* 5. Cleanup (the finally clause): drop both references and unlink the    *)
(* in-memory file; an error of gdal.Unlink is swallowed.                   *)
(***************************************************************************)
\* a variant of Cleanup: the in-memory file is not unlinked
CleanupWithoutUnlink ==
    /\ pc = "finally"
    /\ dataset' = NoRef
    /\ cropped_ds' = NoRef
    /\ open_ds' = Referenced(NoRef, NoRef)
    /\ pc' = "done"
    /\ UNCHANGED << file, vsimem, src_win, data, mask, padding_detected,
                    min_height, max_height, is_utm, data_uint16, byteorder,
                    out_file, log, ret, exc, failed_at, output >>

Cleanup ==
    /\ pc = "finally"
    /\ dataset' = NoRef
    /\ cropped_ds' = NoRef
    /\ open_ds' = Referenced(NoRef, NoRef)
    /\ vsimem' = None
    /\ pc' = "done"
    /\ UNCHANGED << file, src_win, data, mask, padding_detected, min_height,
                    max_height, is_utm, data_uint16, byteorder, out_file, log,
                    ret, exc, failed_at, output >>

Next ==
    \/ OpenInput
    \/ ExtentNormalize
    \/ ValidateProjection
    \/ ReadAndClassify
    \/ ClassifyLogRaises
    \/ Measure
    \/ QuantizeStage
    \/ WriteOutput
    \/ WriteRaises
    \/ LogSuccess
    \/ Raise
    \/ HandleException
    \/ Cleanup

Spec == Init /\ [][Next]_vars

----------------------------------------------------------------------------
(***************************************************************************)
(* The crop-window specification: the opening and the extent normalisation *)
(* of the pipeline on rasters of up to MaxSide x MaxSide pixels, each      *)
(* sample naming its pixel.                                                *)
(***************************************************************************)
CropFiles ==
    { [ openable |-> TRUE, cols |-> w, rows |-> h,
        px |-> [ p \in Pixels(h, w) |-> (p[1] - 1) * w + p[2] ],
        nodata |-> None, gt |-> InputGeoTransform ] :
      w \in 1..MaxSide, h \in 1..MaxSide }

InitCrop ==
    /\ pc = "start"
    /\ file \in CropFiles
    /\ dataset = NoRef
    /\ cropped_ds = NoRef
    /\ open_ds = {}
    /\ vsimem = None
    /\ src_win = None
    /\ data = None
    /\ mask = None
    /\ padding_detected = FALSE
    /\ min_height = None
    /\ max_height = None
    /\ is_utm = FALSE
    /\ data_uint16 = None
    /\ byteorder = "unread"
    /\ out_file = Untouched
    /\ log = << >>
    /\ ret = "none"
    /\ exc = "none"
    /\ failed_at = "none"
    /\ output = "unset"

NextCrop ==
    \/ OpenOk
    \/ ExtentNormalize

SpecCrop == InitCrop /\ [][NextCrop]_vars

----------------------------------------------------------------------------
(***************************************************************************)
(* The not-a-number specification: the whole pipeline on small rasters     *)
(* whose samples, or whose declared no-data value, may be NaN (the usual   *)
(* no-data value of floating-point elevation rasters).                     *)
(***************************************************************************)
\* largest raster width and height of this specification
MaxNaNDim == 2

NaNElev == { NaN, 1, 3 }

NaNFiles ==
    { [openable |-> FALSE] } \cup
    UNION { { [openable |-> TRUE, cols |-> s[1], rows |-> s[2], px |-> r,
               nodata |-> nd, gt |-> InputGeoTransform] :
              r \in RastersOf(NaNElev, s[2], s[1]),
              nd \in { None, Some(NaN), Some(3) } } :
            s \in (1..MaxNaNDim) \X (1..MaxNaNDim) }

InitNaN ==
    /\ pc = "start"
    /\ file \in NaNFiles
    /\ dataset = NoRef
    /\ cropped_ds = NoRef
    /\ open_ds = {}
    /\ vsimem = None
    /\ src_win = None
    /\ data = None
    /\ mask = None
    /\ padding_detected = FALSE
    /\ min_height = None
    /\ max_height = None
    /\ is_utm = FALSE
    /\ data_uint16 = None
    /\ byteorder = "unread"
    /\ out_file = Untouched
    /\ log = << >>
    /\ ret = "none"
    /\ exc = "none"
    /\ failed_at = "none"
    /\ output = "unset"

SpecNaN == InitNaN /\ [][Next]_vars

----------------------------------------------------------------------------
(***************************************************************************)
(* The padding specification: the pipeline up to the validity              *)
(* classification on rasters large enough to have pixels outside the       *)
(* five-pixel border band.  The samples are 0 and 3; the zeros are laid    *)
(* out as a frame along the four edges, or fill the border band and the    *)
(* interior up to a pixel each, in reading order.                          *)
(***************************************************************************)
\* largest side of the square of a raster of this specification
MaxPad == 20

PadSides == (MaxPad - 1)..MaxPad

\* pixel p of an s x s square is less than k pixels away from an edge
NearEdge(p, s, k) ==
    \/ p[1] <= k \/ p[1] > s - k
    \/ p[2] <= k \/ p[2] > s - k

\* the position of p in reading order
ReadingIndex(p, s) == (p[1] - 1) * s + p[2]

\* zeros in a frame of width k; the columns right of the square hold 3
FrameRaster(s, cols, k) ==
    [ p \in Pixels(s, cols) |->
        IF p[2] <= s /\ NearEdge(p, s, k) THEN 0 ELSE 3 ]

\* zeros in the outer five pixels up to reading index tb, and inside them up
\* to reading index tc
FilledRaster(s, tb, tc) ==
    [ p \in Pixels(s, s) |->
        IF \/ NearEdge(p, s, 5) /\ ReadingIndex(p, s) <= tb
           \/ ~NearEdge(p, s, 5) /\ ReadingIndex(p, s) <= tc
        THEN 0 ELSE 3 ]

PadRasters(s) ==
    { FilledRaster(s, (j * s) \div 2, 0) : j \in 0..(2 * s) } \cup
    { FilledRaster(s, (j * s) \div 2, i * s + ((3 * s) \div 4)) :
        j \in 0..(2 * s), i \in 0..(s - 1) } \cup
    { FrameRaster(s, s, k) : k \in 0..5 }

PadFiles ==
    UNION { { [ openable |-> TRUE, cols |-> s, rows |-> s, px |-> r,
                nodata |-> None, gt |-> InputGeoTransform ] :
              r \in PadRasters(s) } \cup
            { [ openable |-> TRUE, cols |-> s + 1, rows |-> s,
                px |-> FrameRaster(s, s + 1, k),
                nodata |-> None, gt |-> InputGeoTransform ] : k \in 0..5 } :
            s \in PadSides }

InitPad ==
    /\ pc = "start"
    /\ file \in PadFiles
    /\ dataset = NoRef
    /\ cropped_ds = NoRef
    /\ open_ds = {}
    /\ vsimem = None
    /\ src_win = None
    /\ data = None
    /\ mask = None
    /\ padding_detected = FALSE
    /\ min_height = None
    /\ max_height = None
    /\ is_utm = FALSE
    /\ data_uint16 = None
    /\ byteorder = "unread"
    /\ out_file = Untouched
    /\ log = << >>
    /\ ret = "none"
    /\ exc = "none"
    /\ failed_at = "none"
    /\ output = "unset"

NextPad ==
    \/ OpenOk
    \/ ExtentNormalize
    \/ ValidateProjection
    \/ ReadAndClassify

SpecPad == InitPad /\ [][NextPad]_vars

----------------------------------------------------------------------------
(***************************************************************************)
(* The zone specification: one call of get_utm_epsg_code(dataset,          *)
(* feedback).  `file` is the dataset argument, `ret` the value returned,   *)
(* `log` the calls made on the progress sink.  The source spatial          *)
(* reference is EPSG:4326.  A coordinate is a double written               *)
(* q / 4 + u * 2^-45 degrees: 2^-45 is the spacing of the doubles between  *)
(* 128 and 256, so every such number below 256 is a double and the sums    *)
(* of line 44 and 45 are exact.  Pixel sizes are whole half degrees.       *)
(***************************************************************************)
\* most columns of a dataset of this specification
MaxZoneCols == 3

Degrees(q, u) == [ q |-> q, u |-> u ]

\* gt[0] in quarter degrees: the centre falls on or next to a zone seam
ZoneOrigins == { -722, -710, -2, 334, 706, 718 }

\* gt[3] in quarter degrees
ZoneLatOrigins == { -2, 2, 6 }

\* the steps of the try block that can fail
ZoneSteps == { "dataset", "srs", "transform", "point" }

ZoneFiles ==
    { [ fails |-> "none", cols |-> c, rows |-> 2,
        gt |-> << Degrees(q, u), 1, 0, Degrees(l, 0), 0, -1 >> ] :
        c \in 2..MaxZoneCols, q \in ZoneOrigins, u \in -1..1,
        l \in ZoneLatOrigins } \cup
    { [ fails |-> s, cols |-> 2, rows |-> 2,
        gt |-> << Degrees(0, 0), 1, 0, Degrees(0, 0), 0, -1 >> ] :
        s \in ZoneSteps }

\* gt[0] + (RasterXSize / 2) * gt[1] + (RasterYSize / 2) * gt[2]
x_center_world(ds) ==
    Degrees(ds.gt[1].q + ds.cols * ds.gt[2] + ds.rows * ds.gt[3], ds.gt[1].u)

\* gt[3] + (RasterXSize / 2) * gt[4] + (RasterYSize / 2) * gt[5]
y_center_world(ds) ==
    Degrees(ds.gt[4].q + ds.cols * ds.gt[5] + ds.rows * ds.gt[6], ds.gt[4].u)

\* the transformation from EPSG:4326 to EPSG:4326, both in traditional GIS
\* order, returns the point it is given
TransformPoint(x, y) == << x, y >>

\* lon + 180 in double arithmetic: from 256 on the doubles are 2^-44 apart
\* and an odd multiple of 2^-45 is a tie, which goes to the even neighbour
Plus180(lon) ==
    LET s == lon.q + 720
    IN  IF \/ lon.u = 1 /\ s >= 1024
           \/ lon.u = -1 /\ s > 1024
        THEN Degrees(s, 0)
        ELSE Degrees(s, lon.u)

\* math.floor(x / 6): the quotient is a whole number or at least 2^-45 / 6
\* away from one, so its rounding does not change the floor
FloorSixth(x) == IF x.u < 0 THEN (x.q - 1) \div 24 ELSE x.q \div 24

utm_zone(lon) == FloorSixth(Plus180(lon)) + 1

epsg_code(lon, lat) ==
    IF lat.q > 0 \/ (lat.q = 0 /\ lat.u >= 0)
    THEN 32600 + utm_zone(lon)
    ELSE 32700 + utm_zone(lon)

\* the point of line 59
Point(ds) == TransformPoint(x_center_world(ds), y_center_world(ds))

\* f"{x:.2f}" in hundredths of a degree: u * 2^-45 is rounded away (the sign
\* of a negative number that rounds to zero is not kept)
Hundredths(x) == 25 * x.q

InitZone ==
    /\ pc = "zone_start"
    /\ file \in ZoneFiles
    /\ dataset = NoRef
    /\ cropped_ds = NoRef
    /\ open_ds = {}
    /\ vsimem = None
    /\ src_win = None
    /\ data = None
    /\ mask = None
    /\ padding_detected = FALSE
    /\ min_height = None
    /\ max_height = None
    /\ is_utm = FALSE
    /\ data_uint16 = None
    /\ byteorder = "unread"
    /\ out_file = Untouched
    /\ log = << >>
    /\ ret = "none"
    /\ exc = "none"
    /\ failed_at = "none"
    /\ output = "unset"

\* lines 36 to 72: no step fails
LocateCenter ==
    /\ pc = "zone_start"
    /\ file.fails = "none"
    /\ pc' = "zone_located"
    /\ UNCHANGED << file, dataset, cropped_ds, open_ds, vsimem, src_win, data,
                    mask, padding_detected, min_height, max_height, is_utm,
                    data_uint16, byteorder, out_file, log, ret, exc, failed_at,
                    output >>

\* lines 36 to 59: the dataset is None, the projection cannot be parsed, the
\* transformation cannot be built or the point cannot be transformed
LocateRaises ==
    /\ pc = "zone_start"
    /\ file.fails \in ZoneSteps
    /\ failed_at' = file.fails
    /\ pc' = "zone_except"
    /\ UNCHANGED << file, dataset, cropped_ds, open_ds, vsimem, src_win, data,
                    mask, padding_detected, min_height, max_height, is_utm,
                    data_uint16, byteorder, out_file, log, ret, exc, output >>

\* lines 74 to 77: the two lines and the return
ReportZone ==
    /\ pc = "zone_located"
    /\ LET lon == Point(file)[1]
           lat == Point(file)[2]
       IN  /\ log' = log \o
                 << Line("center_lonlat", Hundredths(lon), Hundredths(lat)),
                    Line("utm_epsg", epsg_code(lon, lat), utm_zone(lon)) >>
           /\ ret' = "EPSG:" \o ToString(epsg_code(lon, lat))
    /\ pc' = "done"
    /\ UNCHANGED << file, dataset, cropped_ds, open_ds, vsimem, src_win, data,
                    mask, padding_detected, min_height, max_height, is_utm,
                    data_uint16, byteorder, out_file, exc, failed_at, output >>

\* the progress sink raises at line 74 or at line 75
ReportRaises ==
    /\ pc = "zone_located"
    /\ \E pushed \in 0..1 :
         log' = IF pushed = 0 THEN log
                ELSE Append(log, Line("center_lonlat",
                                      Hundredths(Point(file)[1]),
                                      Hundredths(Point(file)[2])))
    /\ failed_at' = "report"
    /\ pc' = "zone_except"
    /\ UNCHANGED << file, dataset, cropped_ds, open_ds, vsimem, src_win, data,
                    mask, padding_detected, min_height, max_height, is_utm,
                    data_uint16, byteorder, out_file, ret, exc, output >>

\* lines 79 to 81: push the error line and return None
ZoneHandlerReturnsNone ==
    /\ pc = "zone_except"
    /\ log' = Append(log, Msg("error_get_utm_epsg_code"))
    /\ ret' = "None"
    /\ pc' = "done"
    /\ UNCHANGED << file, dataset, cropped_ds, open_ds, vsimem, src_win, data,
                    mask, padding_detected, min_height, max_height, is_utm,
                    data_uint16, byteorder, out_file, exc, failed_at, output >>

\* line 80: the call of the progress sink raises, and nothing catches it
ZoneHandlerRaises ==
    /\ pc = "zone_except"
    /\ exc' = "escaped"
    /\ pc' = "done"
    /\ UNCHANGED << file, dataset, cropped_ds, open_ds, vsimem, src_win, data,
                    mask, padding_detected, min_height, max_height, is_utm,
                    data_uint16, byteorder, out_file, log, ret, failed_at,
                    output >>

NextZone ==
    \/ LocateCenter
    \/ LocateRaises
    \/ ReportZone
    \/ ReportRaises
    \/ ZoneHandlerReturnsNone
    \/ ZoneHandlerRaises

SpecZone == InitZone /\ [][NextZone]_vars

----------------------------------------------------------------------------
(***************************************************************************)
(* The algorithm specification: one call of                                *)
(* ConvertToUnityRaw.processAlgorithm(parameters, context, feedback),      *)
(* which runs the whole pipeline on the source of the input layer.  The    *)
(* field `layer` of `file` says whether parameterAsRasterLayer returned a  *)
(* layer.                                                                  *)
(***************************************************************************)
\* most pixels of a raster of this specification
MaxAlgPixels == 2

AlgFiles ==
    { [ layer |-> FALSE, openable |-> FALSE ],
      [ layer |-> TRUE, openable |-> FALSE ] } \cup
    UNION { { [ layer |-> TRUE, openable |-> TRUE, cols |-> s[1],
                rows |-> s[2], px |-> r, nodata |-> nd,
                gt |-> InputGeoTransform ] :
              r \in Rasters(s[2], s[1]), nd \in NoDataChoices } :
            s \in { t \in (1..MaxAlgPixels) \X (1..MaxAlgPixels) :
                       t[1] * t[2] <= MaxAlgPixels } }

InitAlg ==
    /\ pc = "alg_start"
    /\ file \in AlgFiles
    /\ dataset = NoRef
    /\ cropped_ds = NoRef
    /\ open_ds = {}
    /\ vsimem = None
    /\ src_win = None
    /\ data = None
    /\ mask = None
    /\ padding_detected = FALSE
    /\ min_height = None
    /\ max_height = None
    /\ is_utm = FALSE
    /\ data_uint16 = None
    /\ byteorder = "unread"
    /\ out_file = Untouched
    /\ log = << >>
    /\ ret = "none"
    /\ exc = "none"
    /\ failed_at = "none"
    /\ output = "unset"

\* lines 498 to 501: no layer, one line and {OUTPUT: None}
InvalidLayer ==
    /\ pc = "alg_start"
    /\ ~file.layer
    /\ log' = Append(log, Msg("invalid_layer"))
    /\ output' = "None"
    /\ pc' = "alg_done"
    /\ UNCHANGED << file, dataset, cropped_ds, open_ds, vsimem, src_win, data,
                    mask, padding_detected, min_height, max_height, is_utm,
                    data_uint16, byteorder, out_file, ret, exc, failed_at >>

\* line 500: the call of the progress sink raises
InvalidLayerRaises ==
    /\ pc = "alg_start"
    /\ ~file.layer
    /\ exc' = "escaped"
    /\ pc' = "alg_done"
    /\ UNCHANGED << file, dataset, cropped_ds, open_ds, vsimem, src_win, data,
                    mask, padding_detected, min_height, max_height, is_utm,
                    data_uint16, byteorder, out_file, log, ret, failed_at,
                    output >>

\* lines 503 to 507: process_geotiff_for_unity is entered
CallProcess ==
    /\ pc = "alg_start"
    /\ file.layer
    /\ pc' = "start"
    /\ UNCHANGED << file, dataset, cropped_ds, open_ds, vsimem, src_win, data,
                    mask, padding_detected, min_height, max_height, is_utm,
                    data_uint16, byteorder, out_file, log, ret, exc,
                    failed_at, output >>

\* a variant of ReturnOutput: the output path is returned whatever the
\* pipeline returned
ReturnOutputAlways ==
    /\ pc = "done"
    /\ exc = "none"
    /\ output' = "output_path"
    /\ pc' = "alg_done"
    /\ UNCHANGED << file, dataset, cropped_ds, open_ds, vsimem, src_win, data,
                    mask, padding_detected, min_height, max_height, is_utm,
                    data_uint16, byteorder, out_file, log, ret, exc,
                    failed_at >>

\* lines 509 to 514: the pipeline returned `success`
ReturnOutput ==
    /\ pc = "done"
    /\ exc = "none"
    /\ output' = IF ret = "True" THEN "output_path" ELSE "None"
    /\ pc' = "alg_done"
    /\ UNCHANGED << file, dataset, cropped_ds, open_ds, vsimem, src_win, data,
                    mask, padding_detected, min_height, max_height, is_utm,
                    data_uint16, byteorder, out_file, log, ret, exc,
                    failed_at >>

\* line 507: an exception that left the pipeline leaves processAlgorithm
ProcessRaised ==
    /\ pc = "done"
    /\ exc = "escaped"
    /\ pc' = "alg_done"
    /\ UNCHANGED << file, dataset, cropped_ds, open_ds, vsimem, src_win, data,
                    mask, padding_detected, min_height, max_height, is_utm,
                    data_uint16, byteorder, out_file, log, ret, exc,
                    failed_at, output >>

NextAlg ==
    \/ InvalidLayer
    \/ InvalidLayerRaises
    \/ CallProcess
    \/ ReturnOutput
    \/ ProcessRaised
    \/ Next

SpecAlg == InitAlg /\ [][NextAlg]_vars

----------------------------------------------------------------------------
(***************************************************************************)
(* The quantisation specification: the whole pipeline on small rasters     *)
(* whose elevations span 319 units, a span at which the float32 quotient   *)
(* and product of the normalisation round upwards past a whole number.     *)
(***************************************************************************)
\* most pixels of a raster of this specification
MaxQuantPixels == 4

QuantElev == { 0, 180, 319 }

QuantFiles ==
    { [openable |-> FALSE] } \cup
    UNION { { [openable |-> TRUE, cols |-> s[1], rows |-> s[2], px |-> r,
               nodata |-> nd, gt |-> InputGeoTransform] :
              r \in RastersOf(QuantElev, s[2], s[1]),
              nd \in { None, Some(0) } } :
            s \in { t \in (1..MaxQuantPixels) \X (1..MaxQuantPixels) :
                       t[1] * t[2] <= MaxQuantPixels } }

InitQuant ==
    /\ pc = "start"
    /\ file \in QuantFiles
    /\ dataset = NoRef
    /\ cropped_ds = NoRef
    /\ open_ds = {}
    /\ vsimem = None
    /\ src_win = None
    /\ data = None
    /\ mask = None
    /\ padding_detected = FALSE
    /\ min_height = None
    /\ max_height = None
    /\ is_utm = FALSE
    /\ data_uint16 = None
    /\ byteorder = "unread"
    /\ out_file = Untouched
    /\ log = << >>
    /\ ret = "none"
    /\ exc = "none"
    /\ failed_at = "none"
    /\ output = "unset"

SpecQuant == InitQuant /\ [][Next]_vars

----------------------------------------------------------------------------
(***************************************************************************)
(* The handle specification: the whole pipeline with the crop of a         *)
(* non-square raster taken statement by statement (lines 311 to 324), so   *)
(* that the order in which dataset handles are opened and released shows.  *)
(* gdal.Translate returns a handle on the file it wrote; the code does     *)
(* not keep it, so it is closed as soon as the call has returned.          *)
(***************************************************************************)
\* most pixels of a raster of this specification
MaxHandlePixels == 2

HandleFiles ==
    { [openable |-> FALSE] } \cup
    UNION { { [openable |-> TRUE, cols |-> s[1], rows |-> s[2], px |-> r,
               nodata |-> nd, gt |-> InputGeoTransform] :
              r \in Rasters(s[2], s[1]), nd \in NoDataChoices } :
            s \in { t \in (1..MaxHandlePixels) \X (1..MaxHandlePixels) :
                       t[1] * t[2] <= MaxHandlePixels } }

InitHandles ==
    /\ pc = "start"
    /\ file \in HandleFiles
    /\ dataset = NoRef
    /\ cropped_ds = NoRef
    /\ open_ds = {}
    /\ vsimem = None
    /\ src_win = None
    /\ data = None
    /\ mask = None
    /\ padding_detected = FALSE
    /\ min_height = None
    /\ max_height = None
    /\ is_utm = FALSE
    /\ data_uint16 = None
    /\ byteorder = "unread"
    /\ out_file = Untouched
    /\ log = << >>
    /\ ret = "none"
    /\ exc = "none"
    /\ failed_at = "none"
    /\ output = "unset"

\* lines 305 to 317: gdal.Translate has written the in-memory file and
\* returned a handle on it
TranslateToMemory ==
    /\ pc = "opened"
    /\ file.cols # file.rows
    /\ src_win' = SrcWin(file.cols, file.rows)
    /\ log' = Append(log, Line("cropping", file.cols, file.rows))
    /\ vsimem' = Some(Translate(Deref(dataset), src_win'))
    /\ open_ds' = Referenced(dataset, cropped_ds) \cup { "translated" }
    /\ pc' = "translating"
    /\ UNCHANGED << file, dataset, cropped_ds, data, mask, padding_detected,
                    min_height, max_height, is_utm, data_uint16, byteorder,
                    out_file, ret, exc, failed_at, output >>

\* line 314: the value of the call is not bound to a name
DropTranslated ==
    /\ pc = "translating"
    /\ open_ds' = Referenced(dataset, cropped_ds)
    /\ pc' = "translated"
    /\ UNCHANGED << file, dataset, cropped_ds, vsimem, src_win, data, mask,
                    padding_detected, min_height, max_height, is_utm,
                    data_uint16, byteorder, out_file, log, ret, exc,
                    failed_at, output >>

\* a variant of ReleaseInput: the input handle is kept while the cropped
\* raster is opened
ReleaseInputSkipped ==
    /\ pc = "translated"
    /\ pc' = "released"
    /\ UNCHANGED << file, dataset, cropped_ds, open_ds, vsimem, src_win, data,
                    mask, padding_detected, min_height, max_height, is_utm,
                    data_uint16, byteorder, out_file, log, ret, exc,
                    failed_at, output >>

\* line 320: dataset = None
ReleaseInput ==
    /\ pc = "translated"
    /\ dataset' = NoRef
    /\ open_ds' = Referenced(NoRef, cropped_ds)
    /\ pc' = "released"
    /\ UNCHANGED << file, cropped_ds, vsimem, src_win, data, mask,
                    padding_detected, min_height, max_height, is_utm,
                    data_uint16, byteorder, out_file, log, ret, exc,
                    failed_at, output >>

\* line 323: cropped_ds = gdal.Open(temp_cropped_path, gdal.GA_ReadOnly)
OpenCropped ==
    /\ pc = "released"
    /\ cropped_ds' = "tmp"
    /\ open_ds' = Referenced(dataset, "tmp")
    /\ pc' = "cropped"
    /\ UNCHANGED << file, dataset, vsimem, src_win, data, mask,
                    padding_detected, min_height, max_height, is_utm,
                    data_uint16, byteorder, out_file, log, ret, exc,
                    failed_at, output >>

\* gdal.Translate raises, with the in-memory file already created or not
TranslateRaises ==
    /\ pc = "opened"
    /\ file.cols # file.rows
    /\ src_win' = SrcWin(file.cols, file.rows)
    /\ log' = Append(log, Line("cropping", file.cols, file.rows))
    /\ \E created \in BOOLEAN :
          vsimem' = IF created
                    THEN Some(Translate(Deref(dataset), src_win'))
                    ELSE None
    /\ failed_at' = "crop"
    /\ pc' = "except"
    /\ UNCHANGED << file, dataset, cropped_ds, open_ds, data, mask,
                    padding_detected, min_height, max_height, is_utm,
                    data_uint16, byteorder, out_file, ret, exc, output >>

\* the second gdal.Open raises
OpenCroppedRaises ==
    /\ pc = "released"
    /\ failed_at' = "crop"
    /\ pc' = "except"
    /\ UNCHANGED << file, dataset, cropped_ds, open_ds, vsimem, src_win, data,
                    mask, padding_detected, min_height, max_height, is_utm,
                    data_uint16, byteorder, out_file, log, ret, exc, output >>

NextHandles ==
    \/ OpenInput
    \/ SkipCrop
    \/ TranslateToMemory
    \/ DropTranslated
    \/ ReleaseInput
    \/ OpenCropped
    \/ TranslateRaises
    \/ OpenCroppedRaises
    \/ ValidateProjection
    \/ ReadAndClassify
    \/ ClassifyLogRaises
    \/ Measure
    \/ QuantizeStage
    \/ WriteOutput
    \/ WriteRaises
    \/ LogSuccess
    \/ Raise
    \/ HandleException
    \/ Cleanup

SpecHandles == InitHandles /\ [][NextHandles]_vars

----------------------------------------------------------------------------
(***************************************************************************)
(* The dimension specification: one call of                                *)
(* calculate_terrain_dimensions(dataset, cols, rows).  `file` is the       *)
(* dataset with the two size arguments, `ret` the pair returned.  The      *)
(* coefficients of the geotransform are whole multiples of 2^-15, small    *)
(* enough for every sum, product and square of the code to be exact in     *)
(* double arithmetic; they are held as the number of 2^-15 units.          *)
(***************************************************************************)
\* most columns and rows of a dataset of this specification
MaxDimsSide == 3

Abs(x) == IF x < 0 THEN 0 - x ELSE x

\* the whole number n in units of 2^-15
Whole(n) == 32768 * n

\* gt[0] and gt[3]: degrees near the bounds, or metres
DimsOrigins ==
    { << 0, 0 >>, << Whole(179), 0 >>, << 0, Whole(89) >>,
      << 0 - Whole(180), Whole(60) >>, << Whole(500), Whole(900) >> }

\* gt[1] and gt[4], the step of one column: 0.5, 2, 2 + 2^-14 and 2 + 2^-13
\* along x, and the rotated steps (0.375, 0.5) and (1.5, 2)
ColumnSteps ==
    { << 16384, 0 >>, << 65536, 0 >>, << 65538, 0 >>, << 65540, 0 >>,
      << 12288, 16384 >>, << 49152, 65536 >> }

\* gt[2] and gt[5], the step of one row: -0.5 and -2 along y, and the
\* rotated steps (0.5, -0.375) and (2, -1.5)
RowSteps ==
    { << 0, -16384 >>, << 0, -65536 >>,
      << 16384, -12288 >>, << 65536, -49152 >> }

DimsFiles ==
    { [ cols |-> c, rows |-> r,
        gt |-> << o[1], cs[1], rs[1], o[2], cs[2], rs[2] >> ] :
      c \in 1..MaxDimsSide, r \in 1..MaxDimsSide, o \in DimsOrigins,
      cs \in ColumnSteps, rs \in RowSteps }

top_left_x(ds) == ds.gt[1]
top_left_y(ds) == ds.gt[4]
top_right_x(ds) == ds.gt[1] + ds.cols * ds.gt[2] + 0 * ds.gt[3]
top_right_y(ds) == ds.gt[4] + ds.cols * ds.gt[5] + 0 * ds.gt[6]
bottom_left_x(ds) == ds.gt[1] + 0 * ds.gt[2] + ds.rows * ds.gt[3]
bottom_left_y(ds) == ds.gt[4] + 0 * ds.gt[5] + ds.rows * ds.gt[6]

is_geographic(ds) ==
    /\ Abs(top_left_x(ds)) <= Whole(180)
    /\ Abs(top_left_y(ds)) <= Whole(90)
    /\ Abs(top_right_x(ds)) <= Whole(180)
    /\ Abs(bottom_left_y(ds)) <= Whole(90)
    /\ Abs(ds.gt[2]) < Whole(1)
    /\ Abs(ds.gt[6]) < Whole(1)

\* math.sqrt(a**2 + b**2): the vectors of this specification lie along an
\* axis or along (3, 4) or (4, 3), so the root is a whole number of units
\* and math.sqrt returns it
Hypot(a, b) ==
    IF b = 0 THEN Abs(a)
    ELSE IF a = 0 THEN Abs(b)
    ELSE IF 4 * Abs(a) = 3 * Abs(b) THEN (5 * Abs(a)) \div 3
    ELSE (5 * Abs(a)) \div 4

\* span * 111320 * cos(radians(center_lat)) and span * 111320, kept as the
\* operands they are computed from: the span in units and twice the centre
\* latitude in units
MetersOfLongitude(span, lat2) == [ degrees |-> span, at |-> << lat2 >> ]
MetersOfLatitude(span) == [ degrees |-> span, at |-> << >> ]

\* a length of the projected branch, in half units
Native(n2) == [ native |-> n2 ]

\* lines 147 to 170
GeographicDimensions(ds) ==
    LET lon_span == Abs(top_right_x(ds) - top_left_x(ds))
        lat_span == Abs(bottom_left_y(ds) - top_left_y(ds))
        center_lat2 == top_left_y(ds) + bottom_left_y(ds)
    IN  << MetersOfLongitude(lon_span, center_lat2),
           MetersOfLatitude(lat_span) >>

\* abs(pixel_scale_x - pixel_scale_z) < 0.0001, in units of 2^-15
pixels_are_square(ds) ==
    10000 * Abs(Hypot(ds.gt[2], ds.gt[5]) - Hypot(ds.gt[3], ds.gt[6])) < 32768

\* a variant of ProjectedDimensions: a square image is averaged whatever
\* the shape of its pixels
ProjectedDimensionsAlwaysAveraged(ds) ==
    LET terrain_size_x == Hypot(top_right_x(ds) - top_left_x(ds),
                                top_right_y(ds) - top_left_y(ds))
        terrain_size_z == Hypot(bottom_left_x(ds) - top_left_x(ds),
                                bottom_left_y(ds) - top_left_y(ds))
    IN  IF ds.cols = ds.rows
        THEN << Native(terrain_size_x + terrain_size_z),
                Native(terrain_size_x + terrain_size_z) >>
        ELSE << Native(2 * terrain_size_x), Native(2 * terrain_size_z) >>

\* lines 171 to 194
ProjectedDimensions(ds) ==
    LET terrain_size_x == Hypot(top_right_x(ds) - top_left_x(ds),
                                top_right_y(ds) - top_left_y(ds))
        terrain_size_z == Hypot(bottom_left_x(ds) - top_left_x(ds),
                                bottom_left_y(ds) - top_left_y(ds))
    IN  IF ds.cols = ds.rows /\ pixels_are_square(ds)
        THEN << Native(terrain_size_x + terrain_size_z),
                Native(terrain_size_x + terrain_size_z) >>
        ELSE << Native(2 * terrain_size_x), Native(2 * terrain_size_z) >>

InitDims ==
    /\ pc = "dims_start"
    /\ file \in DimsFiles
    /\ dataset = NoRef
    /\ cropped_ds = NoRef
    /\ open_ds = {}
    /\ vsimem = None
    /\ src_win = None
    /\ data = None
    /\ mask = None
    /\ padding_detected = FALSE
    /\ min_height = None
    /\ max_height = None
    /\ is_utm = FALSE
    /\ data_uint16 = None
    /\ byteorder = "unread"
    /\ out_file = Untouched
    /\ log = << >>
    /\ ret = "none"
    /\ exc = "none"
    /\ failed_at = "none"
    /\ output = "unset"

\* lines 113 to 145: the corners and the branch taken
DetectGeographic ==
    /\ pc = "dims_start"
    /\ pc' = IF is_geographic(file) THEN "dims_geographic"
             ELSE "dims_projected"
    /\ UNCHANGED << file, dataset, cropped_ds, open_ds, vsimem, src_win, data,
                    mask, padding_detected, min_height, max_height, is_utm,
                    data_uint16, byteorder, out_file, log, ret, exc,
                    failed_at, output >>

ReturnGeographic ==
    /\ pc = "dims_geographic"
    /\ ret' = GeographicDimensions(file)
    /\ pc' = "done"
    /\ UNCHANGED << file, dataset, cropped_ds, open_ds, vsimem, src_win, data,
                    mask, padding_detected, min_height, max_height, is_utm,
                    data_uint16, byteorder, out_file, log, exc, failed_at,
                    output >>

ReturnProjected ==
    /\ pc = "dims_projected"
    /\ ret' = ProjectedDimensions(file)
    /\ pc' = "done"
    /\ UNCHANGED << file, dataset, cropped_ds, open_ds, vsimem, src_win, data,
                    mask, padding_detected, min_height, max_height, is_utm,
                    data_uint16, byteorder, out_file, log, exc, failed_at,
                    output >>

NextDims ==
    \/ DetectGeographic
    \/ ReturnGeographic
    \/ ReturnProjected

SpecDims == InitDims /\ [][NextDims]_vars

----------------------------------------------------------------------------
(***************************************************************************)
(* The projection specification: the whole pipeline on small rasters that  *)
(* carry a spatial reference.  `srs` holds what GetAuthorityName(None) and *)
(* GetAuthorityCode(None) return: the authority is a string or None, the   *)
(* code is None or a string, held as the sequence of its characters.  The  *)
(* crop keeps the spatial reference of its source.                         *)
(***************************************************************************)
\* most pixels of a raster of this specification
MaxProjPixels == 2

\* the characters of a decimal numeral
Digits == << "0", "1", "2", "3", "4", "5", "6", "7", "8", "9" >>

\* str(n) for a natural number n
RECURSIVE Numeral(_)
Numeral(n) ==
    IF n < 10 THEN << Digits[n + 1] >>
    ELSE Append(Numeral(n \div 10), Digits[(n % 10) + 1])

\* the authority codes of the inputs: the ends of the two UTM ranges, their
\* neighbours, a geographic code, an empty code and a code that is no numeral
ProjCodes ==
    { Numeral(n) : n \in { 4326, 32600, 32601, 32660, 32661,
                           32700, 32701, 32760, 32761 } }
      \cup { << >>, Append(Numeral(32601), "x") }

ProjChoices ==
    { [ authority |-> None, code |-> None ],
      [ authority |-> Some("EPSG"), code |-> None ],
      [ authority |-> Some("ESRI"), code |-> Some(Numeral(32601)) ] } \cup
    { [ authority |-> Some("EPSG"), code |-> Some(c) ] : c \in ProjCodes }

ProjFiles ==
    { [openable |-> FALSE] } \cup
    UNION { { [openable |-> TRUE, cols |-> s[1], rows |-> s[2], px |-> r,
               nodata |-> nd, gt |-> InputGeoTransform, srs |-> a] :
              r \in Rasters(s[2], s[1]), nd \in { None, Some(0) },
              a \in ProjChoices } :
            s \in { t \in (1..MaxProjPixels) \X (1..MaxProjPixels) :
                       t[1] * t[2] <= MaxProjPixels } }

\* int(epsg_code) for a string of digits: <<value>>; None stands for the
\* ValueError that a string with another character raises
RECURSIVE IntOf(_)
IntOf(s) ==
    IF s = << >> THEN None
    ELSE LET last == s[Len(s)]
             d    == { i \in 0..9 : Digits[i + 1] = last }
         IN  IF d = {} THEN None
             ELSE IF Len(s) = 1 THEN Some(CHOOSE i \in d : TRUE)
             ELSE LET rest == IntOf(SubSeq(s, 1, Len(s) - 1))
                  IN  IF rest = None THEN None
                      ELSE Some(10 * rest[1] + (CHOOSE i \in d : TRUE))

\* lines 333 to 335: the authority is EPSG and the code is not empty
HasEpsgCode(a) ==
    /\ a.authority = Some("EPSG")
    /\ a.code # None
    /\ a.code[1] # << >>

\* line 338
IsUtmCode(epsg_num) ==
    (32601 <= epsg_num /\ epsg_num <= 32660)
        \/ (32701 <= epsg_num /\ epsg_num <= 32760)

InitProj ==
    /\ pc = "start"
    /\ file \in ProjFiles
    /\ dataset = NoRef
    /\ cropped_ds = NoRef
    /\ open_ds = {}
    /\ vsimem = None
    /\ src_win = None
    /\ data = None
    /\ mask = None
    /\ padding_detected = FALSE
    /\ min_height = None
    /\ max_height = None
    /\ is_utm = FALSE
    /\ data_uint16 = None
    /\ byteorder = "unread"
    /\ out_file = Untouched
    /\ log = << >>
    /\ ret = "none"
    /\ exc = "none"
    /\ failed_at = "none"
    /\ output = "unset"

\* lines 326 to 345 for the spatial reference of the file
CheckProjection ==
    /\ pc = "cropped"
    /\ HasEpsgCode(file.srs) => IntOf(file.srs.code[1]) # None
    /\ LET utm == /\ HasEpsgCode(file.srs)
                  /\ IsUtmCode(IntOf(file.srs.code[1])[1])
       IN  /\ is_utm' = utm
           /\ log' = IF utm THEN Append(log, Msg("utm_detected"))
                     ELSE log \o << Msg("warning_not_utm"),
                                    Msg("warning_reproject"),
                                    Msg("warning_continue") >>
    /\ pc' = "projected"
    /\ UNCHANGED << file, dataset, cropped_ds, open_ds, vsimem, src_win, data,
                    mask, padding_detected, min_height, max_height,
                    data_uint16, byteorder, out_file, ret, exc, failed_at,
                    output >>

\* line 336: int(epsg_code) raises ValueError
CheckProjectionRaises ==
    /\ pc = "cropped"
    /\ HasEpsgCode(file.srs)
    /\ IntOf(file.srs.code[1]) = None
    /\ failed_at' = "projection"
    /\ pc' = "except"
    /\ UNCHANGED << file, dataset, cropped_ds, open_ds, vsimem, src_win, data,
                    mask, padding_detected, min_height, max_height, is_utm,
                    data_uint16, byteorder, out_file, log, ret, exc, output >>

NextProj ==
    \/ OpenInput
    \/ ExtentNormalize
    \/ CheckProjection
    \/ CheckProjectionRaises
    \/ ReadAndClassify
    \/ ClassifyLogRaises
    \/ Measure
    \/ QuantizeStage
    \/ WriteOutput
    \/ WriteRaises
    \/ LogSuccess
    \/ Raise
    \/ HandleException
    \/ Cleanup

SpecProj == InitProj /\ [][NextProj]_vars

----------------------------------------------------------------------------
(***************************************************************************)
(* MockFeedback (src/tools/generate_raw.py): the progress sink of the      *)
(* command-line tools.  It keeps every message and reads the import        *)
(* settings back out of the text of the messages.  Messages are strings    *)
(* here; the sink's fields are what pushConsoleInfo has made of the        *)
(* messages of `log`, in order.  The output path is an input: it is part   *)
(* of the text of the success line.                                        *)
(***************************************************************************)
MaxSinkPixels == 4

SinkElev == { -1, 3 }

\* the output paths: a plain one, one with a colon, and paths that hold the
\* text of one of the keys the sink looks for.  No path holds an underscore,
\* an exponent or the words inf and nan, which int() and float() also accept.
SinkPaths ==
    { "out.raw", "a:b.raw",
      "7x7:Resolution (Width/Height):.raw",
      "9:  Min Height:.raw",
      "x:  Y:.raw" }

SinkFiles ==
    { [openable |-> FALSE, out_path |-> "out.raw"] } \cup
    UNION { { [openable |-> TRUE, cols |-> s[1], rows |-> s[2], px |-> r,
               nodata |-> nd, gt |-> InputGeoTransform, out_path |-> o] :
              r \in RastersOf(SinkElev, s[2], s[1]),
              nd \in { None, Some(-1) }, o \in SinkPaths } :
            s \in { t \in (1..MaxSinkPixels) \X (1..MaxSinkPixels) :
                       t[1] * t[2] <= MaxSinkPixels } }

\* str(n) for a natural number n, as a string
RECURSIVE Decimal(_)
Decimal(n) ==
    IF n < 10 THEN Digits[n + 1]
    ELSE Decimal(n \div 10) \o Digits[(n % 10) + 1]

\* f"{v:.2f}" for a value of h hundredths
Fixed2(h) ==
    LET a == IF h < 0 THEN -h ELSE h
    IN  (IF h < 0 THEN "-" ELSE "") \o Decimal(a \div 100) \o "."
        \o Digits[((a \div 10) % 10) + 1] \o Digits[(a % 10) + 1]

\* calculate_terrain_dimensions for the geotransform of the inputs, in
\* hundredths: both pixel vectors have length sqrt(5), the raster is square,
\* so both sizes are n * sqrt(5), rounded to the nearest hundredth
TerrainSize(n) ==
    CHOOSE r \in 0..(300 * n) :
        /\ (2 * r - 1) * (2 * r - 1) <= 200000 * n * n
        /\ 200000 * n * n < (2 * r + 1) * (2 * r + 1)

\* the text of a line of the log (lines 291 to 437); the spatial reference
\* name, the input name and the exception text are fixed, and the tick
\* marks of lines 340 and 433 and the warning sign of line 384 are written *
Text(l) ==
    CASE l.tag = "processing" -> "--- Processing: dem.tif ---"
      [] l.tag = "error_open" -> "Error: Could not open input file dem.tif"
      [] l.tag = "skip_crop" ->
            "Image is already square (" \o Decimal(l.a) \o "x"
            \o Decimal(l.b) \o "). Skipping crop."
      [] l.tag = "cropping" ->
            "Original dimensions: " \o Decimal(l.a) \o "x" \o Decimal(l.b)
            \o ". Cropping to " \o Decimal(Min(l.a, l.b)) \o "x"
            \o Decimal(Min(l.a, l.b)) \o " from center."
      [] l.tag = "utm_detected" ->
            "Input projection: WGS 84 / UTM zone 1N (EPSG:32601) - UTM detected *"
      [] l.tag = "warning_not_utm" ->
            "Warning: Input projection appears to be WGS 84 (not UTM)."
      [] l.tag = "warning_reproject" ->
            "For best results, reproject to UTM before using this plugin."
      [] l.tag = "warning_continue" ->
            "Processing will continue, but Unity import may require manual scaling."
      [] l.tag = "error_no_valid" ->
            "Error: No valid terrain pixels found after filtering."
      [] l.tag = "padding_excluded" ->
            "* Padding detected in borders and excluded from height calculation ("
            \o Decimal(l.a) \o " pixels)"
      [] l.tag = "settings_header" ->
            "\n--- Suggested Unity Import Settings ---"
      [] l.tag = "resolution" ->
            "Resolution (Width/Height): " \o Decimal(l.a) \o "x"
            \o Decimal(l.b)
      [] l.tag = "size_x" ->
            "  X: " \o Fixed2(TerrainSize(Min(file.cols, file.rows)))
            \o (IF l.a = "m" THEN "m"
                ELSE " (units may not be meters - check projection)")
      [] l.tag = "size_y" -> "  Y: " \o Fixed2(100 * l.a) \o "m"
      [] l.tag = "size_z" ->
            "  Z: " \o Fixed2(TerrainSize(Min(file.cols, file.rows)))
            \o (IF l.a = "m" THEN "m"
                ELSE " (units may not be meters - check projection)")
      [] l.tag = "min_height" -> "  Min Height: " \o Fixed2(100 * l.a) \o "m"
      [] l.tag = "max_height" -> "  Max Height: " \o Fixed2(100 * l.a) \o "m"
      [] l.tag = "success" ->
            "\n* SUCCESS! File saved to: " \o file.out_path
      [] l.tag = "error_exception" ->
            "Error: An error occurred during processing: failure"

\* the positions at which key occurs in s; `key in s`
Find(s, key) ==
    { i \in 1..(Len(s) - Len(key) + 1) : SubSeq(s, i, i + Len(key) - 1) = key }

In(key, s) == Find(s, key) # {}

Least(S) == CHOOSE i \in S : \A j \in S : i <= j
Greatest(S) == CHOOSE i \in S : \A j \in S : i >= j

\* s.split(sep)[0] and s.split(sep)[1] for a separator of one character;
\* None stands for the IndexError of [1] when s has no separator
SplitFirst(s, sep) ==
    IF In(sep, s) THEN SubSeq(s, 1, Least(Find(s, sep)) - 1) ELSE s

SplitSecond(s, sep) ==
    IF ~In(sep, s) THEN None
    ELSE LET first == Least(Find(s, sep))
             later == { i \in Find(s, sep) : i > first }
             stop  == IF later = {} THEN Len(s) + 1 ELSE Least(later)
         IN  Some(SubSeq(s, first + 1, stop - 1))

Whitespace == { " ", "\n" }

Inked(s) == { i \in 1..Len(s) : SubSeq(s, i, i) \notin Whitespace }

\* s.strip()
Strip(s) ==
    IF Inked(s) = {} THEN ""
    ELSE SubSeq(s, Least(Inked(s)), Greatest(Inked(s)))

\* s.split()[0]; None stands for the IndexError when s is blank
FirstWord(s) ==
    IF Inked(s) = {} THEN None
    ELSE LET start == Least(Inked(s))
             gaps  == { i \in start..Len(s) : SubSeq(s, i, i) \in Whitespace }
             stop  == IF gaps = {} THEN Len(s) + 1 ELSE Least(gaps)
         IN  Some(SubSeq(s, start, stop - 1))

\* s.replace("m", "")
RECURSIVE WithoutM(_)
WithoutM(s) ==
    IF s = "" THEN ""
    ELSE (IF SubSeq(s, 1, 1) = "m" THEN "" ELSE SubSeq(s, 1, 1))
         \o WithoutM(SubSeq(s, 2, Len(s)))

\* the value of a string of digits; None when it is empty or holds another
\* character
RECURSIVE DigitsValue(_)
DigitsValue(s) ==
    IF s = "" THEN None
    ELSE LET d == { i \in 0..9 : Digits[i + 1] = SubSeq(s, Len(s), Len(s)) }
         IN  IF d = {} THEN None
             ELSE IF Len(s) = 1 THEN Some(CHOOSE i \in d : TRUE)
             ELSE LET rest == DigitsValue(SubSeq(s, 1, Len(s) - 1))
                  IN  IF rest = None THEN None
                      ELSE Some(10 * rest[1] + (CHOOSE i \in d : TRUE))

\* an optional sign in front of t: << sign, rest >>
Signed(t) ==
    IF t # "" /\ SubSeq(t, 1, 1) = "-" THEN << -1, SubSeq(t, 2, Len(t)) >>
    ELSE IF t # "" /\ SubSeq(t, 1, 1) = "+" THEN << 1, SubSeq(t, 2, Len(t)) >>
    ELSE << 1, t >>

\* int(s): surrounding blanks, an optional sign, digits; None stands for the
\* ValueError
IntOfText(s) ==
    LET t == Signed(Strip(s))
        v == DigitsValue(t[2])
    IN  IF v = None THEN None ELSE Some(t[1] * v[1])

\* float(s) in hundredths, for digits with at most two decimals: surrounding
\* blanks, an optional sign, digits, an optional point and decimals; None
\* stands for the ValueError
FloatOfText(s) ==
    LET t     == Signed(Strip(s))
        whole == SplitFirst(t[2], ".")
        frac  == SplitSecond(t[2], ".")
        w     == IF whole = "" THEN Some(0) ELSE DigitsValue(whole)
        f     == IF frac = None \/ frac = Some("") THEN Some(0)
                 ELSE IF Len(frac[1]) = 1
                      THEN DigitsValue(frac[1] \o "0")
                 ELSE IF Len(frac[1]) = 2 THEN DigitsValue(frac[1])
                 ELSE None
    IN  IF \/ t[2] = "" \/ t[2] = "."
           \/ Cardinality(Find(t[2], ".")) > 1
           \/ w = None \/ f = None
        THEN None
        ELSE Some(t[1] * (100 * w[1] + f[1]))

\* MockFeedback.__init__: nothing has been read yet
NewSink ==
    [ width |-> None, height |-> None, min_height |-> None,
      max_height |-> None, variation |-> None, terrain_size_x |-> None,
      terrain_size_z |-> None ]

Kept(self) == [ self |-> self, raises |-> FALSE ]
Thrown(self) == [ self |-> self, raises |-> TRUE ]

\* the value a size line carries: msg.split(":")[1].strip().split()[0]
\* without its m, as a float
SizeValue(msg) ==
    LET word == FirstWord(SplitSecond(msg, ":")[1])
    IN  IF word = None THEN None ELSE FloatOfText(WithoutM(word[1]))

\* the value a height line carries: msg.split(":")[1].strip() without its
\* m, as a float
HeightValue(msg) == FloatOfText(WithoutM(Strip(SplitSecond(msg, ":")[1])))

\* MockFeedback.pushConsoleInfo after the message has been kept: the first
\* key found in the message decides which field is read from the text
\* between the first and the second colon; a failed conversion raises and
\* leaves what was assigned before it
pushConsoleInfo(self, msg) ==
    IF In("Resolution (Width/Height):", msg) THEN
        LET parts == Strip(SplitSecond(msg, ":")[1])
            w     == IntOfText(SplitFirst(parts, "x"))
            p2    == SplitSecond(parts, "x")
            h     == IF p2 = None THEN None ELSE IntOfText(p2[1])
        IN  IF w = None THEN Thrown(self)
            ELSE IF h = None THEN Thrown([self EXCEPT !.width = w])
            ELSE Kept([self EXCEPT !.width = w, !.height = h])
    ELSE IF In("  X:", msg) THEN
        IF SizeValue(msg) = None THEN Thrown(self)
        ELSE Kept([self EXCEPT !.terrain_size_x = SizeValue(msg)])
    ELSE IF In("  Y:", msg) THEN
        IF SizeValue(msg) = None THEN Thrown(self)
        ELSE Kept([self EXCEPT !.variation = SizeValue(msg)])
    ELSE IF In("  Z:", msg) THEN
        IF SizeValue(msg) = None THEN Thrown(self)
        ELSE Kept([self EXCEPT !.terrain_size_z = SizeValue(msg)])
    ELSE IF In("  Min Height:", msg) THEN
        IF HeightValue(msg) = None THEN Thrown(self)
        ELSE Kept([self EXCEPT !.min_height = HeightValue(msg)])
    ELSE IF In("  Max Height:", msg) THEN
        IF HeightValue(msg) = None THEN Thrown(self)
        ELSE Kept([self EXCEPT !.max_height = HeightValue(msg)])
    ELSE Kept(self)

\* the sink after the lines l[1], ..., l[n]
RECURSIVE SinkAfter(_, _)
SinkAfter(l, n) ==
    IF n = 0 THEN NewSink
    ELSE pushConsoleInfo(SinkAfter(l, n - 1), Text(l[n])).self

feedback == SinkAfter(log, Len(log))

\* the sink's call for the success line raises
SuccessLineRaises == pushConsoleInfo(feedback, Text(Msg("success"))).raises

InitSink ==
    /\ pc = "start"
    /\ file \in SinkFiles
    /\ dataset = NoRef
    /\ cropped_ds = NoRef
    /\ open_ds = {}
    /\ vsimem = None
    /\ src_win = None
    /\ data = None
    /\ mask = None
    /\ padding_detected = FALSE
    /\ min_height = None
    /\ max_height = None
    /\ is_utm = FALSE
    /\ data_uint16 = None
    /\ byteorder = "unread"
    /\ out_file = Untouched
    /\ log = << >>
    /\ ret = "none"
    /\ exc = "none"
    /\ failed_at = "none"
    /\ output = "unset"

\* lines 433 and 434 with this sink: the line is read without an error
SinkLogSuccess ==
    /\ pc = "written"
    /\ ~SuccessLineRaises
    /\ LogSuccess

\* line 433 with this sink: the message is kept, then reading it raises and
\* the handler of line 436 takes over
SinkLogSuccessRaises ==
    /\ pc = "written"
    /\ SuccessLineRaises
    /\ log' = Append(log, Msg("success"))
    /\ failed_at' = "written"
    /\ pc' = "except"
    /\ UNCHANGED << file, dataset, cropped_ds, open_ds, vsimem, src_win, data,
                    mask, padding_detected, min_height, max_height, is_utm,
                    data_uint16, byteorder, out_file, ret, exc, output >>

NextSink ==
    \/ OpenInput
    \/ ExtentNormalize
    \/ ValidateProjection
    \/ ReadAndClassify
    \/ ClassifyLogRaises
    \/ Measure
    \/ QuantizeStage
    \/ WriteOutput
    \/ WriteRaises
    \/ SinkLogSuccess
    \/ SinkLogSuccessRaises
    \/ Raise
    \/ HandleException
    \/ Cleanup

SpecSink == InitSink /\ [][NextSink]_vars

----------------------------------------------------------------------------
(***************************************************************************)
(* Properties.                                                             *)
(***************************************************************************)
\* the call has ended: it returned, or an exception left it
Ended == pc = "done"

\* the tags of the lines that report the import settings
MetricTags == { "padding_excluded", "settings_header", "resolution", "size_x",
                "size_y", "size_z", "min_height", "max_height" }

LogTags == { log[i].tag : i \in DOMAIN log }

\* the i-th unsigned 16-bit value of the output file, read little-endian
Word(i) == out_file[2 * i - 1] + 256 * out_file[2 * i]

\* the side of the centred square of the input, and the input pixel that
\* pixel <<r, c>> of that square is
Side == Min(file.cols, file.rows)
Source(p) == << p[1] + (file.rows - Side) \div 2,
                p[2] + (file.cols - Side) \div 2 >>

\* the position of pixel <<r, c>> of the square in a top-to-bottom,
\* left-to-right enumeration of its pixels
RowMajorIndex(p) == (p[1] - 1) * Side + p[2]

\* the valid pixels of the square, and the range of their samples
ValidSquare == { p \in Pixels(Side, Side) : mask[p] }
LowestValid ==
    CHOOSE v \in { file.px[Source(p)] : p \in ValidSquare } :
        \A q \in ValidSquare : v <= file.px[Source(q)]
HighestValid ==
    CHOOSE v \in { file.px[Source(p)] : p \in ValidSquare } :
        \A q \in ValidSquare : v >= file.px[Source(q)]

\* C1: whichever stage raises, the call ends by returning True or False and
\* no exception propagates to the caller.
C1_NoExceptionEscapes ==
    Ended => (exc = "none" /\ ret \in { "True", "False" })

\* C2: on every exit path the cleanup has run when the call ends: both
\* dataset references are dropped, no dataset object is left open and the
\* in-memory cropped file does not exist.
C2_CleanupOnEveryExit ==
    Ended => /\ dataset = NoRef
             /\ cropped_ds = NoRef
             /\ open_ds = {}
             /\ vsimem = None

\* a successful run that cropped, so that the in-memory file had been created
C2_Witness ==
    Ended /\ ret = "True" /\ src_win # None /\ vsimem = None

\* C3: if the input cannot be opened the call returns False and logs, and no
\* other stage runs: no crop, no read, no metric line, no write.
C3_UnopenableFailsFirst ==
    ~file.openable =>
        /\ src_win = None
        /\ vsimem = None
        /\ data = None
        /\ LogTags \cap MetricTags = {}
        /\ out_file = Untouched
        /\ Ended => (ret = "False" /\ exc = "none" /\ Len(log) >= 1)

\* C4: if no pixel is valid after sentinel exclusion and the padding
\* heuristic, the call returns False and neither an elevation range nor a
\* quantised array is ever computed.
C4_NoValidPixelFails ==
    (data # None /\ ValidPixels(mask) = {}) =>
        /\ min_height = None
        /\ max_height = None
        /\ data_uint16 = None
        /\ Ended => (ret = "False" /\ exc = "none")

\* C5: when the call returns False because the input could not be opened or
\* has no valid pixel, the output path has not been created, truncated or
\* written.
C5_NoOutputOnInputError ==
    (ret = "False" /\ failed_at \in { "open", "novalid" }) =>
        out_file = Untouched

\* a run that returned False for want of a valid pixel
C5_Witness ==
    Ended /\ ret = "False" /\ failed_at = "novalid" /\ out_file = Untouched

\* C6: when the call returns True for a w x h input the output file is
\* 2*m*m bytes, m = min(w, h): the m*m quantised values of the centred
\* square, row by row from the top, and nothing else.
C6_OutputIsSquareRowMajor ==
    ret = "True" =>
        /\ Len(out_file) = 2 * Side * Side
        /\ \A p \in Pixels(Side, Side) :
              Word(RowMajorIndex(p)) =
                 IF HighestValid = LowestValid THEN 0
                 ELSE Quantize(IF mask[p] THEN file.px[Source(p)]
                               ELSE LowestValid,
                               LowestValid, HighestValid)

\* a 3 x 2 input written as a 2 x 2 buffer whose four values differ by row
\* and by column
C6_Witness ==
    /\ ret = "True"
    /\ file.cols = 3
    /\ file.rows = 2
    /\ Len(out_file) = 8
    /\ Word(2) # Word(3)

\* C7: a square raster passes the extent normalisation unchanged: no crop
\* window is computed, no intermediate dataset is created, and the dataset
\* read downstream is the input itself, samples and geotransform.
C7_SquareIsPassedThrough ==
    (file.openable /\ file.cols = file.rows) =>
        /\ src_win = None
        /\ vsimem = None
        /\ cropped_ds \in { NoRef, "src" }
        /\ pc = "cropped" => (cropped_ds = "src" /\ dataset = NoRef)
        /\ pc = "classified" =>
              (data = file.px /\ Deref(cropped_ds).gt = file.gt)

\* a 2 x 2 raster whose samples have been read
C7_Witness ==
    /\ pc = "classified"
    /\ file.cols = 2
    /\ file.rows = 2
    /\ data = file.px

\* C8: the crop window of a non-square w x h raster starts at
\* ((w-m)//2, (h-m)//2), is m x m, lies inside the raster, and the margins
\* before and after it differ by at most 1 on each axis.
C8_CropWindowCentred ==
    src_win # None =>
        LET w == file.cols
            h == file.rows
            m == Min(w, h)
            x == src_win[1]
            y == src_win[2]
        IN  /\ w # h
            /\ src_win[3] = m /\ src_win[4] = m
            /\ x = (w - m) \div 2 /\ y = (h - m) \div 2
            /\ 0 <= x /\ x + m <= w
            /\ 0 <= y /\ y + m <= h
            /\ (w - m - x) - x \in { 0, 1 }
            /\ (h - m - y) - y \in { 0, 1 }

\* a 4 x 9 raster: the surplus of 5 rows is split 2 above, 3 below
C8_Witness ==
    /\ pc = "cropped"
    /\ file.cols = 4 /\ file.rows = 9
    /\ src_win = << 0, 2, 4, 4 >>

\* C9 as stated: both crop offsets of a non-square raster are strictly less
\* than min(w, h).
C9_OffsetsBelowMinDim ==
    src_win # None =>
        /\ src_win[1] < Min(file.cols, file.rows)
        /\ src_win[2] < Min(file.cols, file.rows)

\* C9 as amended: both crop offsets of a non-square raster are strictly less
\* than min(w, h) exactly when max(w, h) < 3 * min(w, h); the offset on the
\* shorter axis is 0 and the other one is (max(w, h) - min(w, h)) // 2.
C9_OffsetsBelowMinDimIffUnderTriple ==
    src_win # None =>
        LET m == Min(file.cols, file.rows)
            M == Max(file.cols, file.rows)
        IN  /\ (src_win[1] < m /\ src_win[2] < m) <=> (M < 3 * m)
            /\ { src_win[1], src_win[2] } = { 0, (M - m) \div 2 }

\* a 1 x 5 raster, whose row offset 2 is not below min(w, h) = 1
C9_Witness ==
    /\ pc = "cropped"
    /\ file.cols = 1 /\ file.rows = 5
    /\ src_win[2] = 2

\* C10: when the valid samples are not all equal, every valid pixel holding
\* the lowest valid sample is written as 0 and every valid pixel holding the
\* highest one as 65535.
C10_ExtremesMapToEnds ==
    (ret = "True" /\ HighestValid # LowestValid) =>
        \A p \in ValidSquare :
            /\ file.px[Source(p)] = LowestValid => Word(RowMajorIndex(p)) = 0
            /\ file.px[Source(p)] = HighestValid =>
                  Word(RowMajorIndex(p)) = 65535

\* a run with a sentinel above the highest valid sample, one pixel written
\* as 0 and one as 65535
C10_Witness ==
    /\ ret = "True"
    /\ file.nodata = Some(3)
    /\ \E p \in Pixels(Side, Side) : ~mask[p]
    /\ \E p \in ValidSquare : Word(RowMajorIndex(p)) = 0
    /\ \E p \in ValidSquare : Word(RowMajorIndex(p)) = 65535

\* pixel p of the centred square holds the declared no-data value
IsSentinel(p) == file.px[Source(p)] = file.nodata[1]
SentinelSquare == { p \in Pixels(Side, Side) : IsSentinel(p) }
RealSquare == Pixels(Side, Side) \ SentinelSquare
RealSamples == { file.px[Source(p)] : p \in RealSquare }

\* C12: with a declared sentinel that some samples hold and some do not, and
\* no padding detected, the mask is the complement of the sentinel positions,
\* the range is the range of the other samples, every sentinel position is
\* filled with the minimum and is written as 0.
C12_SentinelExcludedAndFilled ==
    ( /\ file.openable
      /\ file.nodata # None
      /\ mask # None
      /\ ~padding_detected
      /\ SentinelSquare # {}
      /\ RealSquare # {} ) =>
        /\ mask = [ p \in Pixels(Side, Side) |-> p \in RealSquare ]
        /\ min_height # None =>
              /\ min_height[1] = MinOf(RealSamples)
              /\ max_height[1] = MaxOf(RealSamples)
              /\ \A p \in SentinelSquare : data[p] = min_height[1]
        /\ ret = "True" =>
              \A p \in SentinelSquare : Word(RowMajorIndex(p)) = 0

\* the zero-valued pixels of the centred square, and the bands of C13
SquareZeros == { p \in Pixels(Side, Side) : file.px[Source(p)] = 0 }
BandWidth == Max(5, Side \div 20)
BorderBand ==
    { p \in Pixels(Side, Side) :
        \/ p[1] <= BandWidth \/ p[1] > Side - BandWidth
        \/ p[2] <= BandWidth \/ p[2] > Side - BandWidth }
CenterBand ==
    { p \in Pixels(Side, Side) :
        /\ p[1] > Side \div 4 /\ p[1] <= (3 * Side) \div 4
        /\ p[2] > Side \div 4 /\ p[2] <= (3 * Side) \div 4 }

\* borderZeroRatio > 0.30 and (centerZeroRatio == 0 or borderZeroRatio >
\* 3 * centerZeroRatio), on the ratios as fractions
RatiosSayPadding ==
    LET bz == Cardinality(SquareZeros \cap BorderBand)
        bt == Cardinality(BorderBand)
        cz == Cardinality(SquareZeros \cap CenterBand)
        ct == Cardinality(CenterBand)
    IN  /\ 10 * bz > 3 * bt
        /\ (cz = 0 \/ bz * ct > 3 * cz * bt)

\* C13: padding is reported, and the zero-valued pixels leave the mask,
\* exactly when the raster has a zero and a non-zero sample and the ratios
\* pass the test; in every other case the sentinel mask is returned
\* unchanged with the flag false.
C13_PaddingExactlyWhenRatiosSay ==
    (file.openable /\ mask # None) =>
        LET some == SquareZeros # {} /\ SquareZeros # Pixels(Side, Side)
            trig == some /\ RatiosSayPadding
        IN  /\ padding_detected = trig
            /\ mask = [ p \in Pixels(Side, Side) |->
                          /\ (file.nodata = None
                                \/ Neq(file.px[Source(p)], file.nodata[1]))
                          /\ (trig => p \notin SquareZeros) ]

\* the band of Side / 20 pixels along the four edges
FivePercentBand ==
    { p \in Pixels(Side, Side) :
        \/ p[1] <= Side \div 20 \/ p[1] > Side - (Side \div 20)
        \/ p[2] <= Side \div 20 \/ p[2] > Side - (Side \div 20) }

\* C14: if the zero-valued samples are exactly the pixels of the 5%-wide band
\* along the four edges (none in the centre quartile), padding is detected
\* and every one of them is excluded from the mask.
C14_FivePercentBandIsPadding ==
    ( /\ file.openable
      /\ mask # None
      /\ FivePercentBand # {}
      /\ SquareZeros = FivePercentBand
      /\ SquareZeros \cap CenterBand = {} ) =>
        /\ padding_detected
        /\ \A p \in FivePercentBand : ~mask[p]

\* the quantised values before the byte-order fix
Unswapped == QuantizeArray(data, min_height[1], max_height[1], 0)

\* C11: if the highest and the lowest valid elevation are equal, the quantised
\* array is all zeros with the shape of the normalised raster (the division
\* branch is not taken), the file holds 2*m*m zero bytes, and a run in which
\* no stage raises returns True.
C11_FlatTerrainIsAllZero ==
    (min_height # None /\ Eq(max_height[1], min_height[1])) =>
        /\ data_uint16 # None =>
              data_uint16 = [ p \in Pixels(Side, Side) |-> 0 ]
        /\ (pc \in { "written", "finally", "done" } /\ failed_at = "none") =>
              out_file = [ i \in 1..(2 * Side * Side) |-> 0 ]
        /\ (Ended /\ failed_at = "none") => ret = "True"

\* a flat terrain at elevation 3 next to sentinel pixels, written as eight
\* zero bytes
C11_Witness ==
    /\ ret = "True"
    /\ min_height = Some(3) /\ max_height = Some(3)
    /\ Side = 2
    /\ \E p \in Pixels(Side, Side) : ~mask[p]
    /\ out_file = [ i \in 1..8 |-> 0 ]

\* C18 as stated: between its stages (after crop, after classify, before
\* quantize and write) the pipeline has called the sink's cancellation query.
C18_PollsCancellation ==
    pc \in { "cropped", "classified", "measured" } =>
        \E i \in DOMAIN log : log[i].tag = "isCanceled"

\* C20: each quantised value v is on disk as the bytes v mod 256, v div 256,
\* in this order, on a little-endian and on a big-endian host; the array is
\* byte-swapped before the write exactly when the host is big-endian.
C20_LittleEndianOnDisk ==
    data_uint16 # None =>
        /\ byteorder \in { "little", "big" }
        /\ \A p \in Pixels(Side, Side) :
              LET v == Unswapped[p]
              IN  /\ data_uint16[p] = IF byteorder = "big"
                                      THEN (v % 256) * 256 + (v \div 256)
                                      ELSE v
                  /\ (pc \in { "written", "finally", "done" }
                         /\ failed_at = "none") =>
                        /\ out_file[2 * RowMajorIndex(p) - 1] = v % 256
                        /\ out_file[2 * RowMajorIndex(p)] = v \div 256

\* a big-endian host writing 16383 as the bytes 255, 63
C20_Witness ==
    /\ ret = "True"
    /\ byteorder = "big"
    /\ \E p \in Pixels(Side, Side) :
          /\ Unswapped[p] = 16383
          /\ data_uint16[p] = 65343
          /\ out_file[2 * RowMajorIndex(p) - 1] = 255
          /\ out_file[2 * RowMajorIndex(p)] = 63

\* the zone resolver returned an identifier
Resolved == pc = "done" /\ ret \notin { "none", "None" }

\* the centre longitude and latitude the resolver works from
CenterLongitude == Point(file)[1]
CenterLatitude == Point(file)[2]

\* floor((lon + 180) / 6) + 1 on the real numbers
ZoneOfLongitude ==
    IF CenterLongitude.u < 0
    THEN (CenterLongitude.q + 719) \div 24 + 1
    ELSE (CenterLongitude.q + 720) \div 24 + 1

\* the zone and the number the resolver reported in its last line
ReportedZone == log[Len(log)].b
ReportedNumber == log[Len(log)].a

\* C15: the zone the resolver reports and builds its identifier from is
\* floor((lon + 180) / 6) + 1 of the centre longitude, unclamped: 31 at 0,
\* 60 at 177, 1 at -177 and at -180, 61 at 180 (returned as 32661 or 32761)
C15_ZoneIsFloorOfLongitude ==
    Resolved =>
        /\ ReportedZone = ZoneOfLongitude
        /\ ret \in { "EPSG:" \o ToString(32600 + ZoneOfLongitude),
                     "EPSG:" \o ToString(32700 + ZoneOfLongitude) }

\* the centre latitude is northern: latitude 0 counts as northern
Northern ==
    CenterLatitude.q > 0 \/ (CenterLatitude.q = 0 /\ CenterLatitude.u >= 0)

\* the centre longitude lies in [-180, 180)
LongitudeInRange ==
    /\ CenterLongitude.q > -720
       \/ (CenterLongitude.q = -720 /\ CenterLongitude.u >= 0)
    /\ CenterLongitude.q < 720
       \/ (CenterLongitude.q = 720 /\ CenterLongitude.u < 0)

\* C16: a successful call returns "EPSG:" followed by 32600 + zone in the
\* north and by 32700 + zone in the south, and for a centre longitude in
\* [-180, 180) that number is in 32601..32660 or in 32701..32760
C16_IdentifierByHemisphere ==
    Resolved =>
        /\ ReportedNumber =
              IF Northern THEN 32600 + ReportedZone ELSE 32700 + ReportedZone
        /\ ret = "EPSG:" \o ToString(ReportedNumber)
        /\ LongitudeInRange =>
              IF Northern THEN ReportedNumber \in 32601..32660
                          ELSE ReportedNumber \in 32701..32760

\* the lines of the sink that contain 'Error'
ZoneErrorLines ==
    { i \in 1..Len(log) : log[i].tag = "error_get_utm_epsg_code" }

\* C17: when a step of get_utm_epsg_code fails (missing dataset, unparseable
\* spatial reference, transformation not built, point not transformed), the
\* call returns None, has pushed one 'Error' line, and raises nothing
C17_FailureReturnsNone ==
    (pc = "done" /\ failed_at \in ZoneSteps) =>
        /\ ret = "None"
        /\ exc = "none"
        /\ Cardinality(ZoneErrorLines) = 1

\* processAlgorithm returned a dictionary
Returned == pc = "alg_done" /\ exc = "none"

NonFlat ==
    /\ min_height # None
    /\ min_height[1] # NaN
    /\ max_height[1] # NaN
    /\ max_height[1] > min_height[1]

\* C21: for every valid sample s of a non-flat raster with quantised value q
\* the reconstruction e = min + (q / 65535) * (max - min) satisfies
\* 0 <= s - e < (max - min) / 65535 (both sides multiplied by 65535)
C21_DecodingWithinOneStepBelow ==
    (pc \in { "quantized", "written", "finally", "done" }
       /\ data_uint16 # None /\ NonFlat) =>
        \A p \in ValidPixels(mask) :
            LET q == Unswapped[p]
                k == data[p] - min_height[1]
                n == max_height[1] - min_height[1]
            IN  /\ q * n <= 65535 * k
                /\ 65535 * k < (q + 1) * n

\* the handles derived from the input: the one gdal.Translate returns and
\* the one opened on the in-memory file
DerivedHandles == { "translated", "tmp" }

\* C22: at most one input handle and at most one derived handle are open at
\* any point; on the non-square path the input handle is released before
\* the cropped raster is opened for reading; on the square path the one
\* handle is the working raster and is released only in cleanup
C22_HandlesOneAtATime ==
    /\ Cardinality(open_ds \ DerivedHandles) <= 1
    /\ Cardinality(open_ds \cap DerivedHandles) <= 1
    /\ "tmp" \in open_ds => open_ds = { "tmp" }
    /\ pc = "released" => open_ds = {}
    /\ (file.openable /\ file.cols = file.rows
          /\ pc \notin { "start", "done" }) =>
            /\ open_ds = { "src" }
            /\ cropped_ds # NoRef => (cropped_ds = "src" /\ dataset = NoRef)
    /\ pc = "done" => open_ds = {}

\* the cropped raster is being read after the input handle was released
C22_Witness ==
    /\ pc = "classified"
    /\ cropped_ds = "tmp"
    /\ open_ds = { "tmp" }
    /\ file.cols # file.rows

\* calculate_terrain_dimensions has chosen its branch, and which
DimsClassified == pc \in { "dims_geographic", "dims_projected", "done" }
TookGeographicBranch ==
    \/ pc = "dims_geographic"
    \/ pc = "done" /\ "degrees" \in DOMAIN ret[1]

\* the world coordinates of the four corners of the raster
Corners ==
    { << file.gt[1] + c * file.gt[2] + r * file.gt[3],
         file.gt[4] + c * file.gt[5] + r * file.gt[6] >> :
      c \in { 0, file.cols }, r \in { 0, file.rows } }

\* C23: the raster is classified as geographic if and only if every corner
\* has its x within [-180, 180] and its y within [-90, 90] and both pixel
\* size coefficients are below 1.0 in magnitude
C23_GeographicIffCornersInBounds ==
    DimsClassified =>
        (TookGeographicBranch <=>
            /\ \A k \in Corners :
                  Abs(k[1]) <= Whole(180) /\ Abs(k[2]) <= Whole(90)
            /\ Abs(file.gt[2]) < Whole(1)
            /\ Abs(file.gt[6]) < Whole(1))

\* the two corner-to-corner distances, in units
CornerDistanceX == file.cols * Hypot(file.gt[2], file.gt[5])
CornerDistanceZ == file.rows * Hypot(file.gt[3], file.gt[6])

\* the magnitudes of the two pixel vectors differ by less than 0.0001
SquarePixels ==
    10000 * Abs(Hypot(file.gt[2], file.gt[5]) - Hypot(file.gt[3], file.gt[6]))
        < 32768

\* C24: in the projected branch a square raster with square pixels gets the
\* average of the two corner distances as both sizes; otherwise the two
\* distances are returned as they are; the geographic branch returns the
\* longitude span and the latitude span converted separately
C24_AveragedOnlyWhenSquare ==
    pc = "done" =>
        IF TookGeographicBranch
        THEN ret = << MetersOfLongitude(Abs(file.cols * file.gt[2]),
                                        2 * file.gt[4] + file.rows * file.gt[6]),
                      MetersOfLatitude(Abs(file.rows * file.gt[6])) >>
        ELSE IF file.cols = file.rows /\ SquarePixels
             THEN /\ ret[1] = ret[2]
                  /\ ret[1] = Native(CornerDistanceX + CornerDistanceZ)
             ELSE ret = << Native(2 * CornerDistanceX),
                           Native(2 * CornerDistanceZ) >>

\* a square raster whose pixels are square within the tolerance only: the
\* size returned twice is neither of the two distances
C24_Witness ==
    /\ pc = "done"
    /\ ~TookGeographicBranch
    /\ file.cols = file.rows
    /\ CornerDistanceX # CornerDistanceZ
    /\ ret[1] = ret[2]
    /\ ret[1] = Native(CornerDistanceX + CornerDistanceZ)

\* the positions in the log of the padding message
PaddingLines == { i \in DOMAIN log : log[i].tag = "padding_excluded" }

\* C25: once the range is computed, the padding message has been emitted if
\* and only if the padding heuristic triggered, and the count it reports is
\* the number of zero-valued pixels the heuristic removed: pixels excluded
\* only because they hold a (non-zero) no-data sentinel are not counted
C25_PaddingCountIsPaddingOnly ==
    min_height # None =>
        /\ PaddingLines # {} <=> padding_detected
        /\ \A i \in PaddingLines : log[i].a = Cardinality(SquareZeros)

\* the numerals of the EPSG UTM codes
UtmNumerals ==
    { Numeral(n) : n \in (32601..32660) \cup (32701..32760) }

\* the source projection is an EPSG UTM code
SourceIsUtm ==
    /\ file.srs.authority = Some("EPSG")
    /\ file.srs.code # None
    /\ file.srs.code[1] \in UtmNumerals

\* the flags of the X and Z lines of the log
ExtentFlags ==
    { log[i].a : i \in { j \in DOMAIN log : log[j].tag \in { "size_x", "size_z" } } }

\* C26: a source projection that is not an EPSG UTM code never makes the
\* run fail: from the projection check on the log holds the not-UTM warning
\* and the X and Z extents are flagged as possibly not meters exactly in
\* that case; with a UTM code there is no warning and the extents are in
\* meters
C26_NotUtmWarnsAndProceeds ==
    file.openable =>
        /\ failed_at # "projection"
        /\ (pc \in { "projected", "classified", "measured", "quantized",
                     "written" }
              \/ "success" \in LogTags) =>
              /\ "warning_not_utm" \in LogTags <=> ~SourceIsUtm
              /\ "utm_detected" \in LogTags <=> SourceIsUtm
        /\ ExtentFlags \subseteq
              IF SourceIsUtm THEN { "m" } ELSE { "units may not be meters" }

\* the tags of the metric lines: resolution, extents, minimum and maximum
RequiredMetricTags ==
    { "resolution", "size_x", "size_y", "size_z", "min_height", "max_height" }

\* the output file holds the whole array
WriteCompleted ==
    /\ out_file # Untouched
    /\ Len(out_file) = 2 * Side * Side

\* the order of events in a state: the file is touched only after the
\* metric lines, SUCCESS is logged only after the complete write, and True
\* is returned only after SUCCESS, which is then the last line
EventsInOrder ==
    /\ out_file # Untouched => RequiredMetricTags \subseteq LogTags
    /\ "success" \in LogTags => WriteCompleted
    /\ ret = "True" => (Len(log) > 0 /\ log[Len(log)].tag = "success")

\* a file that has been opened for writing is not written again
WrittenOnce == out_file # Untouched => out_file' = out_file

\* C27: in every run the metric lines are all emitted before the output
\* file is opened for writing, the file is written at most once, the
\* SUCCESS line comes only after the write has completed and True is
\* returned only after the SUCCESS line
C27_EventsInOrder == [](file.openable => EventsInOrder) /\ [][WrittenOnce]_vars

\* a run that wrote the file, logged SUCCESS and returned True
C27_Witness ==
    /\ Ended
    /\ ret = "True"
    /\ "success" \in LogTags
    /\ Len(out_file) = 2 * Side * Side

\* the line of the log with the given tag (the metric lines are pushed once)
Logged(tag) == log[CHOOSE i \in DOMAIN log : log[i].tag = tag]

\* what pipeline.py (lines 104 to 146) and read_raw_file need of the sink:
\* every required value read, equal to the logged one (heights in
\* hundredths), and width * height equal to the number of 16-bit words of
\* the file
SinkMatchesRun ==
    /\ \A k \in { "width", "height", "min_height", "max_height", "variation" } :
          feedback[k] # None
    /\ feedback.width = Some(Logged("resolution").a)
    /\ feedback.height = Some(Logged("resolution").b)
    /\ feedback.min_height = Some(100 * Logged("min_height").a)
    /\ feedback.max_height = Some(100 * Logged("max_height").a)
    /\ feedback.variation = Some(100 * Logged("size_y").a)
    /\ feedback.width = Some(Side)
    /\ feedback.height = Some(Side)
    /\ 2 * feedback.width[1] * feedback.height[1] = Len(out_file)

\* C28: after a conversion that returned True with a MockFeedback sink, the
\* sink's width, height, min_height, max_height and variation are all set
\* and equal the logged values, and width and height are the dimensions of
\* the written buffer, so that read_raw_file accepts them.
C28_SinkHoldsLoggedValues == (Ended /\ ret = "True") => SinkMatchesRun

\* the same for the output paths that hold none of the sink's keys
C28_HoldsForPlainPaths ==
    (Ended /\ ret = "True" /\ file.out_path \in { "out.raw", "a:b.raw" })
        => SinkMatchesRun

\* a successful conversion of a 2x2 raster after which the sink reports 7x7
C28_WrongDimensions ==
    /\ Ended
    /\ ret = "True"
    /\ Side = 2
    /\ feedback.width = Some(7)
    /\ Len(out_file) = 8

\* the sample and the sentinel mask of pixel p of the square that is
\* classified (line 360: every pixel when the band has no no-data value)
Sample(p) == file.px[Source(p)]
NonSentinel(p) == file.nodata = None \/ Neq(Sample(p), file.nodata[1])

\* C29: the final validity mask is a subset of the sentinel mask and holds
\* every pixel of the classified raster that is both non-sentinel and
\* non-zero; hence a classified raster with such a pixel never fails with
\* 'no valid terrain pixels'.
C29_MaskBetweenSentinelAndNonZero ==
    file.openable =>
        /\ mask # None =>
              \A p \in Pixels(Side, Side) :
                  /\ mask[p] => NonSentinel(p)
                  /\ (NonSentinel(p) /\ Sample(p) # 0) => mask[p]
        /\ (failed_at = "novalid" \/ "error_no_valid" \in LogTags) =>
              \A p \in Pixels(Side, Side) : ~NonSentinel(p) \/ Sample(p) = 0

\* the padding stage has removed a non-sentinel zero and kept a non-zero
\* sample next to a sentinel pixel
C29_Witness ==
    /\ Ended
    /\ ret = "True"
    /\ padding_detected
    /\ \E p, q, r \in Pixels(Side, Side) :
          /\ NonSentinel(p) /\ Sample(p) = 0 /\ ~mask[p]
          /\ NonSentinel(q) /\ Sample(q) # 0 /\ mask[q]
          /\ ~NonSentinel(r) /\ ~mask[r]

\* the written value of pixel p of the square
Written(p) == Word(RowMajorIndex(p))

\* C30: quantisation is order-preserving and bounded: for two pixels of the
\* filled raster with samples a <= b the written values satisfy
\* q(a) <= q(b), and every written value, those of the filled excluded
\* pixels included, lies in 0..65535.
C30_QuantizationMonotoneAndBounded ==
    (file.openable /\ WriteCompleted) =>
        \A p, q \in Pixels(Side, Side) :
            /\ Written(p) \in 0..65535
            /\ data[p] <= data[q] => Written(p) <= Written(q)

\* a written 2x2 raster with an excluded pixel, filled and written as 0, a
\* pixel at the minimum and a pixel at the maximum
C30_Witness ==
    /\ Ended
    /\ ret = "True"
    /\ Side = 2
    /\ \E p, r, x \in Pixels(Side, Side) :
          /\ ~mask[x] /\ mask[p] /\ mask[r]
          /\ data[x] = data[p] /\ data[p] < data[r]
          /\ Written(x) = 0 /\ Written(p) = 0
          /\ Written(r) = 65535

====
